---- MODULE Spec2Model ----
(***************************************************************************)
(* A model of the query-executor pipeline of my-fake-sql: the decorator    *)
(* stages (cache, sanitizer, filter, session accumulator, type-inference   *)
(* adapter, task-API client), the result reader, the type inference and   *)
(* the wire front-ends that drive the pipeline.                            *)
(*                                                                         *)
(* Text is modelled as a sequence of one-character strings, so that the    *)
(* string functions of the code (trim, lines, split, starts_with, replace, *)
(* to_lowercase, join) are computed character by character.                *)
(***************************************************************************)
EXTENDS Integers, Sequences, FiniteSets, TLC

VARIABLES
    stage,      \* position of the function under check: "input" or "done";
                \* "serving" when the pipeline runs
    arg,        \* the input handed to the function under check
    out,        \* what the function returned
    with_type_discovery,    \* per port: the flag of its configuration
    listener,   \* per port: the data_type_info of its tcp_listener, None or
                \* the catalog loaded at the first connection accepted, the
                \* calls the load made, and whether the listener still runs
    storage,    \* per port: the map of its InMemoryQueryStorage
    stores,     \* per port: the store operations on its map so far, in order
    executor,   \* per connection: the fields of its stages, acc of the
                \* QueryAccumulator, data_type_info and default_schema of the
                \* QueryDataType
    pending,    \* per connection: the query that missed the cache and is
                \* with the inner stages, if any
    issued,     \* per connection: the number of queries received
    last,       \* per connection: the last query answered, its result and
                \* the stage calls it made, in order
    sets,       \* per connection: the set statements its accumulator received
                \* so far, in order
    backend     \* per connection: the prepared_statements of its Backend, the
                \* packet the client was sent last and the kind of the one
                \* before, the command that packet answers, and whether the
                \* thread of the connection lives

pipeline == <<with_type_discovery, listener, storage, stores, executor, pending, issued, last,
              sets, backend>>

vars == <<stage, arg, out, with_type_discovery, listener, storage, stores, executor, pending,
          issued, last, sets, backend>>

\* the ports of config.yml and the connections accepted, each on its port
Ports == {"p1", "p2"}
Connections == {"c1", "c2", "c3"}
PortOf(c) == IF c = "c3" THEN "p2" ELSE "p1"

\* tcp_listener before any connection is accepted (line 61): no catalog
NewListener == [data_type_info |-> <<>>, alive |-> TRUE, log |-> <<>>]

\* the catalog a connection of the port is constructed with: the clone of the
\* listener's (construct_query_executor_with_data_type, line 109), none on a
\* port without type discovery
data_type_info_clone(of_port) ==
    IF of_port.data_type_info = <<>> THEN <<>> ELSE of_port.data_type_info[1]

\* tcp_listener and the constructors, the connections accepted: an empty map
\* per port, and per connection an empty accumulator, the clone of the
\* catalog of its listener and no schema; a listener that panicked at its
\* first connection serves none
Accepted(listeners) ==
    /\ listener = listeners
    /\ storage = [p \in Ports |-> <<>>]
    /\ stores = [p \in Ports |-> <<>>]
    /\ executor = [c \in Connections |->
                      [acc |-> <<>>,
                       data_type_info |-> data_type_info_clone(listeners[PortOf(c)]),
                       default_schema |-> <<>>]]
    /\ pending = [c \in Connections |-> <<>>]
    /\ issued = [c \in Connections |-> 0]
    /\ last = [c \in Connections |-> <<>>]
    /\ sets = [c \in Connections |-> <<>>]
    /\ backend = [c \in Connections |->
                     [prepared_statements |-> <<>>, packet |-> <<>>, previous |-> "",
                      request |-> <<>>, alive |-> listeners[PortOf(c)].alive]]

\* the functions checked on their own run on ports without type discovery,
\* before any connection is served
NoPipeline ==
    /\ with_type_discovery = [p \in Ports |-> FALSE]
    /\ Accepted([p \in Ports |-> NewListener])

----------------------------------------------------------------------------
(* Text helpers: the Rust standard-library string functions the code uses. *)

\* u8::is_ascii_whitespace: space, tab, line feed, form feed and carriage
\* return
AsciiWhite == {" ", "\t", "\n", "\f", "\r"}

\* the vertical tab, U+000B
VT == ""

\* the next line, U+0085, and the no-break space, U+00A0
NEL == ""
NBSP == " "

\* char::is_whitespace over the characters up to U+00FF: the ASCII white
\* space, the vertical tab, the next line and the no-break space
White == AsciiWhite \cup {VT, NEL, NBSP}

\* the white space of the tokenizer of sqlparser
SqlWhite == {" ", "\t", "\n", "\r"}

\* the form feed and the vertical tab are tokens of their own for the
\* tokenizer, which no statement has
NoSqlToken == {"\f", VT}

\* the characters U+0080..U+00FF, in order
Latin1Supplement ==
    <<"","","","","","","","","","","","","","","","",
      "","","","","","","","","","","","","","","","",
      " ","¡","¢","£","¤","¥","¦","§","¨","©","ª","«","¬","­","®","¯",
      "°","±","²","³","´","µ","¶","·","¸","¹","º","»","¼","½","¾","¿",
      "À","Á","Â","Ã","Ä","Å","Æ","Ç","È","É","Ê","Ë","Ì","Í","Î","Ï",
      "Ð","Ñ","Ò","Ó","Ô","Õ","Ö","×","Ø","Ù","Ú","Û","Ü","Ý","Þ","ß",
      "à","á","â","ã","ä","å","æ","ç","è","é","ê","ë","ì","í","î","ï",
      "ð","ñ","ò","ó","ô","õ","ö","÷","ø","ù","ú","û","ü","ý","þ","ÿ">>

\* MySqlDialect::is_identifier_start: the characters from U+0080 on are
\* letters of an identifier, here those up to U+00FF
HighLetters == {Latin1Supplement[i] : i \in 1..Len(Latin1Supplement)}

MinOf(S) == CHOOSE x \in S : \A y \in S : x <= y
MaxOf(S) == CHOOSE x \in S : \A y \in S : x >= y

\* str::trim
Trim(s) ==
    LET keep == {i \in 1..Len(s) : s[i] \notin White}
    IN  IF keep = {} THEN <<>> ELSE SubSeq(s, MinOf(keep), MaxOf(keep))

\* str::starts_with
StartsWith(s, p) == Len(s) >= Len(p) /\ SubSeq(s, 1, Len(p)) = p

\* str::ends_with
EndsWith(s, p) == Len(s) >= Len(p) /\ SubSeq(s, Len(s) - Len(p) + 1, Len(s)) = p

\* whether p occurs in s
Contains(s, p) == \E i \in 1..(Len(s) - Len(p) + 1) : SubSeq(s, i, i + Len(p) - 1) = p

\* str::replace: every non-overlapping occurrence, left to right
RECURSIVE Replace(_, _, _)
Replace(s, pat, rep) ==
    LET at == {i \in 1..(Len(s) - Len(pat) + 1) : SubSeq(s, i, i + Len(pat) - 1) = pat}
    IN  IF Len(pat) = 0 \/ at = {} THEN s
        ELSE SubSeq(s, 1, MinOf(at) - 1) \o rep
             \o Replace(SubSeq(s, MinOf(at) + Len(pat), Len(s)), pat, rep)

\* str::split(char): the pieces between the separators, always at least one
RECURSIVE Split(_, _)
Split(s, ch) ==
    LET at == {i \in 1..Len(s) : s[i] = ch}
    IN  IF at = {} THEN <<s>>
        ELSE <<SubSeq(s, 1, MinOf(at) - 1)>> \o Split(SubSeq(s, MinOf(at) + 1, Len(s)), ch)

\* a line without its terminator: "\n", or "\r\n"
StripCr(l) == IF Len(l) > 0 /\ l[Len(l)] = "\r" THEN SubSeq(l, 1, Len(l) - 1) ELSE l

\* str::lines and BufRead::lines: split at "\n", no piece after a final "\n",
\* a "\r" before the "\n" dropped
Lines(s) ==
    LET pieces == Split(s, "\n")
        n == Len(pieces)
        terminated == IF pieces[n] = <<>> THEN n - 1 ELSE n
    IN  [i \in 1..terminated |-> IF i < n THEN StripCr(pieces[i]) ELSE pieces[i]]

\* Itertools::join / slice::join
RECURSIVE Join(_, _)
Join(parts, sep) ==
    IF Len(parts) = 0 THEN <<>>
    ELSE IF Len(parts) = 1 THEN parts[1]
    ELSE parts[1] \o sep \o Join(Tail(parts), sep)

RECURSIVE Concat(_)
Concat(parts) == IF Len(parts) = 0 THEN <<>> ELSE parts[1] \o Concat(Tail(parts))

UpperCase == <<"A","B","C","D","E","F","G","H","I","J","K","L","M",
               "N","O","P","Q","R","S","T","U","V","W","X","Y","Z">>
LowerCase == <<"a","b","c","d","e","f","g","h","i","j","k","l","m",
               "n","o","p","q","r","s","t","u","v","w","x","y","z">>

\* the upper-case letters of U+00C0..U+00DE (the multiplication sign
\* U+00D7 is none) and their lower case, U+00E0..U+00FE
UpperLatin1 ==
    <<"À","Á","Â","Ã","Ä","Å","Æ","Ç","È","É","Ê","Ë","Ì","Í","Î",
      "Ï","Ð","Ñ","Ò","Ó","Ô","Õ","Ö","Ø","Ù","Ú","Û","Ü","Ý","Þ">>
LowerLatin1 ==
    <<"à","á","â","ã","ä","å","æ","ç","è","é","ê","ë","ì","í","î",
      "ï","ð","ñ","ò","ó","ô","õ","ö","ø","ù","ú","û","ü","ý","þ">>

\* char::to_lowercase over the characters up to U+00FF
LowerChar(c) ==
    IF \E i \in 1..Len(UpperCase) : UpperCase[i] = c
    THEN LowerCase[CHOOSE i \in 1..Len(UpperCase) : UpperCase[i] = c]
    ELSE IF \E i \in 1..Len(UpperLatin1) : UpperLatin1[i] = c
    THEN LowerLatin1[CHOOSE i \in 1..Len(UpperLatin1) : UpperLatin1[i] = c]
    ELSE c

\* str::to_lowercase: every upper-case letter a text of the model can hold,
\* A-Z and those of U+00C0..U+00DE
ToLower(s) == [i \in 1..Len(s) |-> LowerChar(s[i])]

\* all sequences over S of length at most n
SeqsUpTo(S, n) == UNION {[1..k -> S] : k \in 0..n}

----------------------------------------------------------------------------
(* QuerySanitizer (query_sanitizer.rs) *)

AT_LANGUAGE == <<"@","@","l","a","n","g","u","a","g","e">>
ENGLISH == <<"'","e","n","g","l","i","s","h","'">>

\* Everything after the first "*/" (nothing when there is none).
remove_comments_from_the_start(query) ==
    LET hits == {i \in 1..(Len(query) - 1) : query[i] = "*" /\ query[i + 1] = "/"}
    IN  IF hits = {} THEN <<>> ELSE SubSeq(query, MinOf(hits) + 2, Len(query))

IsCommentLine(line) ==
    StartsWith(Trim(line), <<"-", "-">>) \/ StartsWith(Trim(line), <<"#">>)

\* The text QuerySanitizer::query passes to its inner stage.
SanitizedText(query) ==
    LET q1 == Trim(query)
        q2 == IF StartsWith(q1, <<"/">>) THEN remove_comments_from_the_start(q1) ELSE q1
        ls == Lines(Trim(q2))
        trimmed == [i \in 1..Len(ls) |-> Trim(ls[i])]
        kept == SelectSeq(trimmed, LAMBDA l : ~IsCommentLine(l))
    IN  Replace(Join(kept, <<"\n">>), AT_LANGUAGE, ENGLISH)

\* Fragments the sanitizer's inputs are built from.
SanFragments ==
    { <<"/","*">>, <<"*","/">>, <<"/">>, <<"-","-">>, <<"#">>, <<"\n">>, <<" ">>,
      <<"x">>, AT_LANGUAGE, <<"@","@">> }

MaxSanFragments == 4

SanInputs == {Concat(fs) : fs \in SeqsUpTo(SanFragments, MaxSanFragments)}

InitSanitizer ==
    /\ stage = "input"
    /\ arg \in SanInputs
    /\ out = <<>>
    /\ NoPipeline

Sanitize ==
    /\ stage = "input"
    /\ stage' = "done"
    /\ out' = SanitizedText(arg)
    /\ UNCHANGED <<arg, pipeline>>

NextSanitizer == Sanitize

SpecSanitizer == InitSanitizer /\ [][NextSanitizer]_vars

\* The sanitizer's output begins with a block comment.
BeginsWithBlockComment(s) ==
    /\ StartsWith(s, <<"/", "*">>)
    /\ Contains(SubSeq(s, 3, Len(s)), <<"*", "/">>)

HasCommentLine(s) == \E i \in 1..Len(Split(s, "\n")) : IsCommentLine(Split(s, "\n")[i])

\* C5: for every query text, the text the sanitizer passes on does not begin
\* with a /*...*/ block comment, has no line whose trimmed form starts with
\* "--" or "#", and has no occurrence of @@language.
C5_SanitizerClean ==
    stage = "done" =>
        /\ ~BeginsWithBlockComment(out)
        /\ ~HasCommentLine(out)
        /\ ~Contains(out, AT_LANGUAGE)

----------------------------------------------------------------------------
(* ReaderQueryResult (query_executor/mod.rs): header and rows of a stream. *)

NULL_TEXT == <<"N","U","L","L">>

Null == [tag |-> "Null"]
StringValue(v) == [tag |-> "String", value |-> v]

\* BufRead::read_line: the stream up to and including its first "\n".
HeaderLineEnd(stream) ==
    LET at == {i \in 1..Len(stream) : stream[i] = "\n"}
    IN  IF at = {} THEN Len(stream) ELSE MinOf(at)

NewColumn(name) ==
    [table |-> "none", column |-> name, coltype |-> "MYSQL_TYPE_STRING"]

\* ReaderQueryResult::get_columns
get_columns(stream) ==
    LET header == SubSeq(stream, 1, HeaderLineEnd(stream))
        fields == Split(header, "\t")
        names == SelectSeq([i \in 1..Len(fields) |-> Trim(fields[i])],
                           LAMBDA n : n # <<>>)
    IN  [i \in 1..Len(names) |-> NewColumn(names[i])]

DecodeValue(value) == IF value = NULL_TEXT THEN Null ELSE StringValue(value)

DecodeRow(row) ==
    LET fields == Split(row, "\t")
    IN  [i \in 1..Len(fields) |-> DecodeValue(fields[i])]

\* get_rows without its filter of empty lines
get_rows_keeping_empty_lines(stream) ==
    LET ls == Lines(SubSeq(stream, HeaderLineEnd(stream) + 1, Len(stream)))
    IN  [i \in 1..Len(ls) |-> DecodeRow(ls[i])]

\* ReaderQueryResult::get_rows, on what get_columns left of the stream
get_rows(stream) ==
    LET rest == SubSeq(stream, HeaderLineEnd(stream) + 1, Len(stream))
        ls == SelectSeq(Lines(rest), LAMBDA l : l # <<>>)
    IN  [i \in 1..Len(ls) |-> DecodeRow(ls[i])]

\* ReaderQueryResult::get_data
ReaderGetData(stream) == [columns |-> get_columns(stream), rows |-> get_rows(stream)]

\* A stream is built from cells: a field text and the separator after it.
FieldTexts == { <<>>, <<"a">>, <<" ", "b">>, NULL_TEXT }

Cells == [text : FieldTexts, term : {"\t", "\n"}]

MaxCells == 5

RECURSIVE EncodeCells(_)
EncodeCells(cells) ==
    IF Len(cells) = 0 THEN <<>>
    ELSE cells[1].text \o <<cells[1].term>> \o EncodeCells(Tail(cells))

InitReader ==
    /\ stage = "input"
    /\ arg \in SeqsUpTo(Cells, MaxCells)
    /\ out = <<>>
    /\ NoPipeline

ReadStream ==
    /\ stage = "input"
    /\ stage' = "done"
    /\ out' = ReaderGetData(EncodeCells(arg))
    /\ UNCHANGED <<arg, pipeline>>

NextReader == ReadStream

SpecReader == InitReader /\ [][NextReader]_vars

\* The lines of a cell sequence, each the list of its field texts: a cell ending
\* in "\n" closes a line, and cells after the last "\n" make an unterminated
\* line whose last field is empty.
RECURSIVE CellLines(_, _)
CellLines(cells, cur) ==
    IF Len(cells) = 0
    THEN IF cur = <<>> THEN <<>> ELSE <<Append(cur, <<>>)>>
    ELSE IF cells[1].term = "\n"
         THEN <<Append(cur, cells[1].text)>> \o CellLines(Tail(cells), <<>>)
         ELSE CellLines(Tail(cells), Append(cur, cells[1].text))

ExpectedHeader(cells) ==
    LET ls == CellLines(cells, <<>>)
        fields == IF Len(ls) = 0 THEN <<>> ELSE ls[1]
        names == SelectSeq([i \in 1..Len(fields) |-> Trim(fields[i])],
                           LAMBDA n : n # <<>>)
    IN  [i \in 1..Len(names) |-> [column |-> names[i], coltype |-> "MYSQL_TYPE_STRING"]]

ExpectedRows(cells) ==
    LET ls == CellLines(cells, <<>>)
        body == SelectSeq(SubSeq(ls, 2, Len(ls)), LAMBDA l : l # << <<>> >>)
    IN  [i \in 1..Len(body) |->
            [j \in 1..Len(body[i]) |->
                IF body[i][j] = NULL_TEXT THEN Null ELSE StringValue(body[i][j])]]

\* C6: the reader's header is the list of trimmed, non-empty tab-separated
\* fields of the header line, each untyped, and the rows are, in order, the
\* tab-split of every non-empty later line, NULL decoded to Null and every other
\* field to a String; empty lines yield nothing.
C6_ReaderRoundTrip ==
    stage = "done" =>
        /\ [i \in 1..Len(out.columns) |->
               [column |-> out.columns[i].column, coltype |-> out.columns[i].coltype]]
             = ExpectedHeader(arg)
        /\ out.rows = ExpectedRows(arg)

\* C6 witness: a header with a trimmed and a dropped field, an empty line
\* between two rows, and a NULL field, all read.
C6_Witness ==
    /\ stage = "done"
    /\ Len(out.columns) = 1
    /\ \E i \in 1..Len(arg) : arg[i].text = <<" ", "b">> /\ out.columns[1].column = <<"b">>
    /\ Len(out.rows) = 2
    /\ Len(CellLines(arg, <<>>)) = 4
    /\ out.rows[2] = <<Null>>

----------------------------------------------------------------------------
(* Type inference (query_data_type.rs).                                    *)
(*                                                                         *)
(* The syntax tree of sqlparser is modelled by records:                    *)
(*   statement    [kind: "Query", body: set_expr] or [kind: "Other"]       *)
(*   set_expr     [kind: "Select", projection, from]                       *)
(*                [kind: "Union", left, right] or [kind: "Other"]          *)
(*   from item    [relation: table_factor, joins: Seq(table_factor)]       *)
(*   table_factor [kind: "Table", name: Seq(ident), alias: Seq(ident)]     *)
(*                [kind: "Derived", subquery: set_expr, alias] or "Other"  *)
(*   select item  [kind: "UnnamedExpr", expr]                              *)
(*                [kind: "ExprWithAlias", expr, alias]                      *)
(*                [kind: "QualifiedWildcard", name] or [kind: "Wildcard"]  *)
(*   expr         [kind: "Identifier", value]                              *)
(*                [kind: "CompoundIdentifier", idents]                     *)
(*                [kind: "Function", name, args] or [kind: "Other"]        *)
(*   function arg [kind: "Unnamed", expr], "UnnamedWildcard" or "Named"     *)
(* An optional alias is a sequence of zero or one identifier.  A fallible  *)
(* function returns [st: "ok", ...], [st: "err"] (bail!, ?) or             *)
(* [st: "panic"] (unwrap of None, index out of bounds).                    *)

TYPE_STRING == "MYSQL_TYPE_STRING"

Err == [st |-> "err"]
Panic == [st |-> "panic"]

\* a value computed once and used under a name
With(v, F(_)) == F(v)

\* the ? of Rust, and the panic that unwinds alike: the failure of r, or what
\* follows from its value
Then(r, F(_)) == IF r.st # "ok" THEN r ELSE F(r)

IF_NAME == <<"i","f">>
UNKNOWN == <<"u","n","k","n","o","w","n">>

\* find_type: the first entry for the column (of the table, when given), or
\* the column as a string column.
find_type(alias_to_column_and_type, column_name, table_name) ==
    LET hits == {i \in 1..Len(alias_to_column_and_type) :
                    /\ alias_to_column_and_type[i].column = column_name
                    /\ (table_name = <<>> \/
                        alias_to_column_and_type[i].alias = table_name[1])}
    IN  IF hits = {}
        THEN [name |-> column_name, type |-> TYPE_STRING]
        ELSE [name |-> alias_to_column_and_type[MinOf(hits)].column,
              type |-> alias_to_column_and_type[MinOf(hits)].type]

RECURSIVE process_expr(_, _)
\* one argument of if(): lines 553-561 and 562-570
if_argument(arg_, alias_to_column_and_type) ==
    IF arg_.kind = "Unnamed" THEN process_expr(arg_.expr, alias_to_column_and_type)
    ELSE Err

process_expr(expr, alias_to_column_and_type) ==
    CASE expr.kind = "Identifier" ->
            [st |-> "ok", col |-> find_type(alias_to_column_and_type, expr.value, <<>>)]
      [] expr.kind = "CompoundIdentifier" ->
            IF Len(expr.idents) > 2 THEN Err
            ELSE IF Len(expr.idents) < 2 THEN Panic
            ELSE [st |-> "ok",
                  col |-> find_type(alias_to_column_and_type, expr.idents[2],
                                    <<expr.idents[1]>>)]
      [] expr.kind = "Function" ->
            IF expr.name = IF_NAME
            THEN IF Len(expr.args) < 2 THEN Panic
                 ELSE Then(if_argument(expr.args[2], alias_to_column_and_type),
                           LAMBDA first :
                      Then(if_argument(expr.args[2], alias_to_column_and_type),
                           LAMBDA second :
                      IF first.col.type = TYPE_STRING THEN second ELSE first))
            ELSE [st |-> "ok", col |-> [name |-> expr.name, type |-> TYPE_STRING]]
      [] OTHER -> [st |-> "ok", col |-> [name |-> UNKNOWN, type |-> TYPE_STRING]]

\* the entries a wildcard emits: every entry, or those of one alias
WildcardColumns(alias_to_column_and_type, alias) ==
    LET hit == SelectSeq(alias_to_column_and_type,
                         LAMBDA e : alias = <<>> \/ e.alias = alias[1])
    IN  [i \in 1..Len(hit) |-> [name |-> hit[i].column, type |-> hit[i].type]]

\* one projection of get_columns_types: the columns it adds
ProjectionColumns(item, alias_to_column_and_type) ==
    CASE item.kind = "UnnamedExpr" ->
            Then(process_expr(item.expr, alias_to_column_and_type),
                 LAMBDA r : [st |-> "ok", cols |-> <<r.col>>])
      [] item.kind = "ExprWithAlias" ->
            Then(process_expr(item.expr, alias_to_column_and_type),
                 LAMBDA r : [st |-> "ok",
                             cols |-> <<[name |-> item.alias, type |-> r.col.type]>>])
      [] item.kind = "QualifiedWildcard" ->
            IF Len(item.name) > 2 THEN Err
            ELSE IF Len(item.name) = 0
            THEN IF Len(alias_to_column_and_type) = 0
                 THEN [st |-> "ok", cols |-> <<>>]
                 ELSE Panic
            ELSE [st |-> "ok",
                  cols |-> WildcardColumns(alias_to_column_and_type, <<item.name[1]>>)]
      [] OTHER -> [st |-> "ok", cols |-> WildcardColumns(alias_to_column_and_type, <<>>)]

RECURSIVE ProjectionsColumns(_, _)
ProjectionsColumns(items, alias_to_column_and_type) ==
    IF Len(items) = 0 THEN [st |-> "ok", cols |-> <<>>]
    ELSE Then(ProjectionColumns(items[1], alias_to_column_and_type), LAMBDA head :
         Then(ProjectionsColumns(Tail(items), alias_to_column_and_type), LAMBDA rest :
         [st |-> "ok", cols |-> head.cols \o rest.cols]))

RECURSIVE get_columns_types(_, _)
get_columns_types(set_expr, alias_to_column_and_type) ==
    CASE set_expr.kind = "Select" ->
            ProjectionsColumns(set_expr.projection, alias_to_column_and_type)
      [] set_expr.kind = "Union" ->
            get_columns_types(set_expr.left, alias_to_column_and_type)
      [] OTHER -> Err

\* get_alias_with_clomuns_and_column_type: for every table, in order, the
\* catalog entries of its schema and table, under the table's alias.
RECURSIVE get_alias_with_clomuns_and_column_type(_, _)
get_alias_with_clomuns_and_column_type(tables_with_aliases, data_type_info) ==
    IF Len(tables_with_aliases) = 0 THEN <<>>
    ELSE LET t == tables_with_aliases[1]
             hit == SelectSeq(data_type_info,
                              LAMBDA e : e.schema = t.schema /\ e.table = t.table)
         IN  [i \in 1..Len(hit) |->
                 [alias |-> t.alias, column |-> hit[i].column, type |-> hit[i].type]]
             \o get_alias_with_clomuns_and_column_type(Tail(tables_with_aliases),
                                                       data_type_info)

\* the table factors of a FROM clause in the order the loops visit them
RECURSIVE FromFactors(_)
FromFactors(from) ==
    IF Len(from) = 0 THEN <<>>
    ELSE <<from[1].relation>> \o from[1].joins \o FromFactors(Tail(from))

RECURSIVE process_table_factor(_, _, _)
RECURSIVE ProcessFactors(_, _, _)

\* the loops over select.from: the tables found and the catalog as extended
ProcessFactors(factors, data_type_info, default_schema) ==
    IF Len(factors) = 0
    THEN [st |-> "ok", tables |-> <<>>, data_type_info |-> data_type_info]
    ELSE Then(process_table_factor(factors[1], data_type_info, default_schema),
              LAMBDA head :
         Then(ProcessFactors(Tail(factors), head.data_type_info, default_schema),
              LAMBDA rest :
         [st |-> "ok", tables |-> <<head.table>> \o rest.tables,
          data_type_info |-> rest.data_type_info]))

process_table_factor(table_factor, data_type_info, default_schema) ==
    CASE table_factor.kind = "Table" ->
            LET name == table_factor.name
                schema == IF Len(name) = 1 THEN default_schema ELSE name[1]
                table_name == IF Len(name) = 1 THEN name[1] ELSE name[2]
                alias == IF table_factor.alias # <<>> THEN table_factor.alias[1]
                         ELSE table_name
            IN  IF Len(name) \notin {1, 2} THEN Err
                ELSE [st |-> "ok",
                      table |-> [schema |-> schema, table |-> table_name, alias |-> alias],
                      data_type_info |-> data_type_info]
      [] table_factor.kind = "Derived" ->
            IF table_factor.subquery.kind # "Select" THEN Err
            ELSE Then(ProcessFactors(FromFactors(table_factor.subquery.from),
                                     data_type_info, default_schema),
                      LAMBDA inner :
                 IF table_factor.alias = <<>> THEN Panic
                 ELSE Then(get_columns_types(table_factor.subquery,
                               get_alias_with_clomuns_and_column_type(
                                   inner.tables, inner.data_type_info)),
                           LAMBDA cols :
                      [st |-> "ok",
                       table |-> [schema |-> table_factor.alias[1],
                                  table |-> table_factor.alias[1],
                                  alias |-> table_factor.alias[1]],
                       data_type_info |-> data_type_info \o
                           [i \in 1..Len(cols.cols) |->
                               [schema |-> table_factor.alias[1],
                                table |-> table_factor.alias[1],
                                column |-> cols.cols[i].name,
                                type |-> cols.cols[i].type]]]))
      [] OTHER -> Err

RECURSIVE get_tables_with_aliases_from_set_expr(_, _, _)
get_tables_with_aliases_from_set_expr(set_expr, data_type_info, default_schema) ==
    CASE set_expr.kind = "Select" ->
            ProcessFactors(FromFactors(set_expr.from), data_type_info, default_schema)
      [] set_expr.kind = "Union" ->
            get_tables_with_aliases_from_set_expr(set_expr.left, data_type_info,
                                                  default_schema)
      [] OTHER -> Err

get_tables_with_aliases(ast, data_type_info, default_schema) ==
    IF Len(ast) # 1 THEN Err
    ELSE IF ast[1].kind # "Query" THEN Err
    ELSE get_tables_with_aliases_from_set_expr(ast[1].body, data_type_info, default_schema)

\* get_columns_types_from_ast once load_internals has returned: the inferred
\* (name, type) list, and the clone of the catalog as the resolution of the
\* tables extended it.
get_columns_types_from_ast(ast, data_type_info, default_schema) ==
    Then(get_tables_with_aliases(ast, data_type_info, default_schema), LAMBDA tables :
    Then(get_columns_types(ast[1].body,
             get_alias_with_clomuns_and_column_type(tables.tables,
                                                    tables.data_type_info)),
         LAMBDA columns :
    [st |-> "ok", cols |-> columns.cols, data_type_info |-> tables.data_type_info]))

----------------------------------------------------------------------------
(* ResultWithCustomColumnTypes::get_data (query_data_type.rs): the header  *)
(* gets the inferred types and every string value is parsed under its type. *)

DIGITS == <<"0","1","2","3","4","5","6","7","8","9">>
IsDigit(c) == \E i \in 1..Len(DIGITS) : DIGITS[i] = c
DigitValue(c) == (CHOOSE i \in 1..Len(DIGITS) : DIGITS[i] = c) - 1
AllDigits(s) == \A i \in 1..Len(s) : IsDigit(s[i])

\* the largest magnitudes of the signed integer types, as decimal text
I8_MAX == <<"1","2","7">>
I8_MIN == <<"1","2","8">>
I16_MAX == <<"3","2","7","6","7">>
I16_MIN == <<"3","2","7","6","8">>
I32_MAX == <<"2","1","4","7","4","8","3","6","4","7">>
I32_MIN == <<"2","1","4","7","4","8","3","6","4","8">>
I64_MAX == <<"9","2","2","3","3","7","2","0","3","6","8","5","4","7","7","5","8","0","7">>
I64_MIN == <<"9","2","2","3","3","7","2","0","3","6","8","5","4","7","7","5","8","0","8">>

\* a decimal magnitude without its leading zeros (<<>> is zero)
RECURSIVE StripZeros(_)
StripZeros(d) == IF Len(d) > 0 /\ d[1] = "0" THEN StripZeros(Tail(d)) ELSE d

\* a <= b for decimal magnitudes without leading zeros
MagnitudeLeq(a, b) ==
    \/ Len(a) < Len(b)
    \/ /\ Len(a) = Len(b)
       /\ LET diff == {i \in 1..Len(a) : a[i] # b[i]}
          IN  diff = {} \/ DigitValue(a[MinOf(diff)]) < DigitValue(b[MinOf(diff)])

\* str::parse::<iN>: an optional sign and at least one digit, within the range
\* of the type.  The value is kept as its decimal text in normal form.
ParseInteger(v, max, min) ==
    LET signed == Len(v) > 0 /\ v[1] \in {"+", "-"}
        negative == Len(v) > 0 /\ v[1] = "-"
        body == IF signed THEN Tail(v) ELSE v
        mag == StripZeros(body)
    IN  IF body = <<>> \/ ~AllDigits(body) THEN [ok |-> FALSE]
        ELSE IF ~MagnitudeLeq(mag, IF negative THEN min ELSE max) THEN [ok |-> FALSE]
        ELSE [ok |-> TRUE,
              value |-> IF mag = <<>> THEN <<"0">>
                        ELSE IF negative THEN <<"-">> \o mag ELSE mag]

INF == <<"i","n","f">>
INFINITY == <<"i","n","f","i","n","i","t","y">>
NAN == <<"n","a","n">>

\* the mantissa of a float literal: digits with at most one point, at least
\* one digit
IsMantissa(m) ==
    /\ Cardinality({i \in 1..Len(m) : m[i] = "."}) <= 1
    /\ \E i \in 1..Len(m) : IsDigit(m[i])
    /\ \A i \in 1..Len(m) : IsDigit(m[i]) \/ m[i] = "."

\* the exponent of a float literal after its e: an optional sign and at least
\* one digit
IsExponent(e) ==
    LET body == IF Len(e) > 0 /\ e[1] \in {"+", "-"} THEN Tail(e) ELSE e
    IN  body # <<>> /\ AllDigits(body)

\* str::parse::<f64> and <f32>: an optional sign, then inf, infinity or nan in
\* any case, or a mantissa with an optional exponent.  The value is kept as
\* the text parsed.
ParseFloat(v) ==
    LET body == IF Len(v) > 0 /\ v[1] \in {"+", "-"} THEN Tail(v) ELSE v
        marks == {i \in 1..Len(body) : body[i] \in {"e", "E"}}
        mantissa == IF marks = {} THEN body ELSE SubSeq(body, 1, MinOf(marks) - 1)
        exponent == IF marks = {} THEN <<>>
                    ELSE SubSeq(body, MinOf(marks) + 1, Len(body))
    IN  IF ToLower(body) \in {INF, INFINITY, NAN} THEN [ok |-> TRUE, value |-> v]
        ELSE IF IsMantissa(mantissa) /\ (marks = {} \/ IsExponent(exponent))
        THEN [ok |-> TRUE, value |-> v]
        ELSE [ok |-> FALSE]

\* the number a run of at most six digits writes
RECURSIVE NumberOf(_)
NumberOf(d) == IF Len(d) = 0 THEN 0
               ELSE 10 * NumberOf(SubSeq(d, 1, Len(d) - 1)) + DigitValue(d[Len(d)])

DaysInMonth(y, m) ==
    IF m \in {4, 6, 9, 11} THEN 30
    ELSE IF m # 2 THEN 31
    ELSE IF (y % 4 = 0 /\ y % 100 # 0) \/ y % 400 = 0 THEN 29 ELSE 28

\* the years of a NaiveDate
MIN_YEAR == -262143
MAX_YEAR == 262142

\* str::trim_left, which chrono applies before every number and for a space of
\* the format
TrimLeft(s) ==
    LET keep == {i \in 1..Len(s) : s[i] \notin White}
    IN  IF keep = {} THEN <<>> ELSE SubSeq(s, MinOf(keep), Len(s))

\* scan::number of chrono: the digits at the start of s, at least min and at
\* most max of them, and the text after them
ScanNumber(s, min, max) ==
    LET stops == {i \in 1..Len(s) : ~IsDigit(s[i])}
        run == IF stops = {} THEN Len(s) ELSE MinOf(stops) - 1
        taken == IF run > max THEN max ELSE run
    IN  IF taken < min THEN [ok |-> FALSE]
        ELSE [ok |-> TRUE, digits |-> SubSeq(s, 1, taken),
              rest |-> SubSeq(s, taken + 1, Len(s))]

\* a number of the format that takes no sign (%m, %d, %H, %M, %S): white
\* space skipped, then one or two digits
ScanField(s) ==
    With(ScanNumber(TrimLeft(s), 1, 2), LAMBDA n :
    IF ~n.ok THEN [ok |-> FALSE]
    ELSE [ok |-> TRUE, value |-> NumberOf(n.digits), rest |-> n.rest])

\* %Y: white space skipped, then a sign and any number of digits, or up to
\* four digits without a sign; a year no NaiveDate has fails in the end
ScanYear(s) ==
    LET t == TrimLeft(s)
        signed == Len(t) > 0 /\ t[1] \in {"+", "-"}
        n == IF signed THEN ScanNumber(Tail(t), 1, Len(t)) ELSE ScanNumber(t, 1, 4)
    IN  IF ~n.ok THEN [ok |-> FALSE]
        ELSE IF Len(StripZeros(n.digits)) > 6 THEN [ok |-> FALSE]
        ELSE [ok |-> TRUE,
              value |-> IF signed /\ t[1] = "-" THEN 0 - NumberOf(StripZeros(n.digits))
                        ELSE NumberOf(StripZeros(n.digits)),
              rest |-> n.rest]

\* a literal of the format: the text after it, when s starts with it
ScanLiteral(r, ch) ==
    IF r.ok /\ Len(r.rest) > 0 /\ r.rest[1] = ch
    THEN [ok |-> TRUE, rest |-> Tail(r.rest)]
    ELSE [ok |-> FALSE]

\* whether year, month and day are a date of the calendar
IsDate(y, m, d) ==
    /\ y \in MIN_YEAR..MAX_YEAR
    /\ m \in 1..12
    /\ d \in 1..DaysInMonth(y, m)

\* the items %Y-%m-%d of a format: the date and the text after it
ScanDate(v) ==
    With(ScanYear(v), LAMBDA y :
    With(ScanLiteral(y, "-"), LAMBDA l1 :
    IF ~l1.ok THEN [ok |-> FALSE]
    ELSE With(ScanField(l1.rest), LAMBDA m :
         With(ScanLiteral(m, "-"), LAMBDA l2 :
         IF ~l2.ok THEN [ok |-> FALSE]
         ELSE With(ScanField(l2.rest), LAMBDA d :
              IF ~d.ok THEN [ok |-> FALSE]
              ELSE [ok |-> TRUE, year |-> y.value, month |-> m.value, day |-> d.value,
                    rest |-> d.rest])))))

\* NaiveDate::parse_from_str(v, "%Y-%m-%d"): a date of the calendar with no
\* text after it
ParseDate(v) ==
    With(ScanDate(v), LAMBDA date :
    IF date.ok /\ date.rest = <<>> /\ IsDate(date.year, date.month, date.day)
    THEN [ok |-> TRUE,
          value |-> [year |-> date.year, month |-> date.month, day |-> date.day]]
    ELSE [ok |-> FALSE])

\* the items %H:%M:%S of a format, after the white space its space stands for
ScanTime(s) ==
    With(ScanField(TrimLeft(s)), LAMBDA h :
    With(ScanLiteral(h, ":"), LAMBDA l1 :
    IF ~l1.ok THEN [ok |-> FALSE]
    ELSE With(ScanField(l1.rest), LAMBDA m :
         With(ScanLiteral(m, ":"), LAMBDA l2 :
         IF ~l2.ok THEN [ok |-> FALSE]
         ELSE With(ScanField(l2.rest), LAMBDA sec :
              IF ~sec.ok THEN [ok |-> FALSE]
              ELSE [ok |-> TRUE, hour |-> h.value, minute |-> m.value,
                    second |-> sec.value, rest |-> sec.rest])))))

\* NaiveDateTime::parse_from_str(v, "%Y-%m-%d %H:%M:%S"): a date of the
\* calendar and a time of the day, the second 60 of a leap second included
ParseDateTime(v) ==
    With(ScanDate(v), LAMBDA date :
    IF ~date.ok THEN [ok |-> FALSE]
    ELSE With(ScanTime(date.rest), LAMBDA time :
         IF /\ time.ok /\ time.rest = <<>>
            /\ IsDate(date.year, date.month, date.day)
            /\ time.hour <= 23 /\ time.minute <= 59 /\ time.second <= 60
         THEN [ok |-> TRUE,
               value |-> [year |-> date.year, month |-> date.month, day |-> date.day,
                          hour |-> time.hour, minute |-> time.minute,
                          second |-> time.second]]
         ELSE [ok |-> FALSE]))

Parsed(tag, r) == IF r.ok THEN [st |-> "ok", value |-> [tag |-> tag, value |-> r.value]]
                  ELSE Panic

\* the match on the column type (lines 463-506): the coerced value, or the panic
\* of unwrap on a parse error, or of a value that is neither Null nor String
CoerceValue(column_value, coltype) ==
    IF column_value.tag = "Null" THEN [st |-> "ok", value |-> Null]
    ELSE IF column_value.tag # "String" THEN Panic
    ELSE LET value == column_value.value
         IN  CASE coltype = "MYSQL_TYPE_LONGLONG" ->
                     Parsed("I64", ParseInteger(value, I64_MAX, I64_MIN))
               [] coltype \in {"MYSQL_TYPE_LONG", "MYSQL_TYPE_INT24"} ->
                     Parsed("I32", ParseInteger(value, I32_MAX, I32_MIN))
               [] coltype \in {"MYSQL_TYPE_SHORT", "MYSQL_TYPE_YEAR"} ->
                     Parsed("I16", ParseInteger(value, I16_MAX, I16_MIN))
               [] coltype = "MYSQL_TYPE_TINY" ->
                     Parsed("I8", ParseInteger(value, I8_MAX, I8_MIN))
               [] coltype = "MYSQL_TYPE_DOUBLE" -> Parsed("Double", ParseFloat(value))
               [] coltype = "MYSQL_TYPE_FLOAT" -> Parsed("Float", ParseFloat(value))
               [] coltype \in {"MYSQL_TYPE_TIMESTAMP", "MYSQL_TYPE_DATETIME",
                               "MYSQL_TYPE_DATETIME2"} ->
                     Parsed("DateTime", ParseDateTime(value))
               [] coltype = "MYSQL_TYPE_DATE" -> Parsed("Date", ParseDate(value))
               [] OTHER -> [st |-> "ok", value |-> StringValue(value)]

\* one row of the coercing iterator: the values zipped with the inferred types
CoerceRow(row, column_types) ==
    With([i \in 1..(IF Len(row) < Len(column_types) THEN Len(row)
                     ELSE Len(column_types)) |->
             CoerceValue(row[i], column_types[i].type)], LAMBDA each :
    IF \E i \in 1..Len(each) : each[i].st = "panic" THEN Panic
    ELSE [st |-> "ok", row |-> [i \in 1..Len(each) |-> each[i].value]])

\* the lazy row iterator as the list of what it yields: it ends at the first
\* row whose coercion panics
RECURSIVE CoerceRows(_, _)
CoerceRows(rows, column_types) ==
    IF Len(rows) = 0 THEN <<>>
    ELSE IF rows[1].st # "ok" THEN <<rows[1]>> \o CoerceRows(Tail(rows), column_types)
    ELSE With(CoerceRow(rows[1].row, column_types), LAMBDA head :
         IF head.st = "panic" THEN <<head>>
         ELSE <<head>> \o CoerceRows(Tail(rows), column_types))

\* the header with the inferred types (lines 446-453)
TypedColumns(columns, column_types) ==
    [i \in 1..Len(columns) |->
        [columns[i] EXCEPT !.coltype = column_types[i].type]]

\* get_data without its check of the column count: the header zipped with the
\* inferred columns
TypedGetDataUnchecked(result, column_types) ==
    IF result = <<>> \/ Len(column_types) = 0
    THEN [st |-> "ok",
          columns |-> IF result = <<>> THEN [st |-> "ok", value |-> <<>>]
                      ELSE result[1].columns,
          rows |-> IF result = <<>> THEN <<>> ELSE result[1].rows]
    ELSE [st |-> "ok", columns |-> result[1].columns,
          rows |-> CoerceRows(result[1].rows, column_types)]

\* ResultWithCustomColumnTypes::get_data.  `result` is <<>> (None) or <<data>>,
\* data being what get_data of the inner result returned:
\* [columns: [st, value], rows: Seq([st, row])].
TypedGetData(result, column_types) ==
    IF result = <<>>
    THEN [st |-> "ok",
          columns |-> [st |-> "ok",
                       value |-> [i \in 1..Len(column_types) |->
                                     [table |-> "none",
                                      column |-> column_types[i].name,
                                      coltype |-> column_types[i].type]]],
          rows |-> <<>>]
    ELSE LET inner == result[1]
         IN  IF Len(column_types) = 0
             THEN [st |-> "ok", columns |-> inner.columns, rows |-> inner.rows]
             ELSE IF inner.columns.st # "ok"
             THEN [st |-> "ok", columns |-> inner.columns,
                   rows |-> CoerceRows(inner.rows, column_types)]
             ELSE IF Len(inner.columns.value) # Len(column_types) THEN Panic
             ELSE [st |-> "ok",
                   columns |-> [st |-> "ok",
                                value |-> TypedColumns(inner.columns.value, column_types)],
                   rows |-> CoerceRows(inner.rows, column_types)]

\* ReaderQueryResult::get_data in the shape the adapters consume: a header
\* result and a list of row results
ReaderData(stream) ==
    [columns |-> [st |-> "ok", value |-> get_columns(stream)],
     rows |-> With(get_rows(stream), LAMBDA rows :
                   [i \in 1..Len(rows) |-> [st |-> "ok", row |-> rows[i]]])]

----------------------------------------------------------------------------
(* Parser::parse_sql (sqlparser), for the fragment of SQL the model's       *)
(* queries are written in:                                                 *)
(*     statement (";" statement)*                                          *)
(*     statement: select ITEM("," ITEM)* [from TABLE]                      *)
(*     TABLE: NAME [[as] ALIAS]                                            *)
(*          | ( select ITEM("," ITEM)* [from NAME [[as] ALIAS]] ) [[as] ALIAS] *)
(*              | a statement that starts with set, use or show            *)
(*     ITEM:  *  |  NAME.*  |  digits  |  NAME                             *)
(*     NAME:  identifier ("." identifier)*                                 *)
(* with white space only between the words.  Any other text is a parse     *)
(* error.                                                                  *)

SELECT_WORD == <<"s","e","l","e","c","t">>
FROM_WORD == <<"f","r","o","m">>
AS_WORD == <<"a","s">>
SET_WORD == <<"s","e","t">>
USE_WORD == <<"u","s","e">>
SHOW_WORD == <<"s","h","o","w">>
STRAIGHT_JOIN == <<"s","t","r","a","i","g","h","t","_","j","o","i","n">>
JOIN_WORD == <<"j","o","i","n">>

Keywords == {SELECT_WORD, FROM_WORD, AS_WORD, SET_WORD, USE_WORD, SHOW_WORD, JOIN_WORD}

IsLetter(c) == \E i \in 1..Len(LowerCase) : LowerCase[i] = c \/ UpperCase[i] = c

IsIdentifier(w) ==
    /\ Len(w) > 0
    /\ \A i \in 1..Len(w) :
           IsLetter(w[i]) \/ IsDigit(w[i]) \/ w[i] = "_" \/ w[i] \in HighLetters
    /\ ~IsDigit(w[1])
    /\ w \notin Keywords

\* str::split_ascii_whitespace: the maximal runs without ASCII white space
RECURSIVE Tokens(_)
Tokens(s) ==
    LET black == {i \in 1..Len(s) : s[i] \notin AsciiWhite}
    IN  IF black = {} THEN <<>>
        ELSE LET from == MinOf(black)
                 stops == {i \in from..Len(s) : s[i] \in AsciiWhite}
                 to == IF stops = {} THEN Len(s) ELSE MinOf(stops) - 1
             IN  <<SubSeq(s, from, to)>> \o Tokens(SubSeq(s, to + 1, Len(s)))

IsName(path) == Len(path) > 0 /\ \A i \in 1..Len(path) : IsIdentifier(path[i])

ParseItem(w) ==
    With(Split(w, "."), LAMBDA path :
    IF w = <<"*">> THEN [st |-> "ok", item |-> [kind |-> "Wildcard"]]
    ELSE IF /\ Len(path) >= 2
            /\ path[Len(path)] = <<"*">>
            /\ IsName(SubSeq(path, 1, Len(path) - 1))
    THEN [st |-> "ok",
          item |-> [kind |-> "QualifiedWildcard",
                    name |-> SubSeq(path, 1, Len(path) - 1)]]
    ELSE IF Len(w) > 0 /\ AllDigits(w)
    THEN [st |-> "ok", item |-> [kind |-> "UnnamedExpr", expr |-> [kind |-> "Other"]]]
    ELSE IF /\ Len(w) > 4
            /\ SubSeq(w, 1, 3) = IF_NAME \o <<"(">>
            /\ w[Len(w)] = ")"
            /\ IsIdentifier(SubSeq(w, 4, Len(w) - 1))
    THEN [st |-> "ok",
          item |-> [kind |-> "UnnamedExpr",
                    expr |-> [kind |-> "Function", name |-> IF_NAME,
                              args |-> <<[kind |-> "Unnamed",
                                          expr |-> [kind |-> "Identifier",
                                                    value |-> SubSeq(w, 4, Len(w) - 1)]]>>]]]
    ELSE IF ~IsName(path) THEN Err
    ELSE IF Len(path) = 1
    THEN [st |-> "ok",
          item |-> [kind |-> "UnnamedExpr",
                    expr |-> [kind |-> "Identifier", value |-> path[1]]]]
    ELSE [st |-> "ok",
          item |-> [kind |-> "UnnamedExpr",
                    expr |-> [kind |-> "CompoundIdentifier", idents |-> path]]])

ParseItems(w) ==
    With([i \in 1..Len(Split(w, ",")) |-> ParseItem(Split(w, ",")[i])], LAMBDA each :
    IF \E i \in 1..Len(each) : each[i].st # "ok" THEN Err
    ELSE [st |-> "ok", items |-> [i \in 1..Len(each) |-> each[i].item]])

\* [from NAME [[as] ALIAS]]
ParseFromTable(toks) ==
    LET n == Len(toks)
        alias == IF n = 5 THEN <<toks[5]>> ELSE IF n = 6 THEN <<toks[6]>> ELSE <<>>
    IN  IF n = 2 THEN [st |-> "ok", from |-> <<>>]
        ELSE IF n \notin {4, 5, 6} \/ toks[3] # FROM_WORD THEN Err
        ELSE IF n = 6 /\ toks[5] # AS_WORD THEN Err
        ELSE IF ~IsName(Split(toks[4], ".")) \/ (alias # <<>> /\ ~IsName(alias)) THEN Err
        ELSE [st |-> "ok",
              from |-> <<[relation |-> [kind |-> "Table", name |-> Split(toks[4], "."),
                                        alias |-> alias],
                          joins |-> <<>>]>>]

\* the alias after a derived table: none, ALIAS or as ALIAS
ParseAlias(toks) ==
    IF Len(toks) = 0 THEN [st |-> "ok", alias |-> <<>>]
    ELSE IF Len(toks) = 1 /\ IsIdentifier(toks[1]) THEN [st |-> "ok", alias |-> <<toks[1]>>]
    ELSE IF Len(toks) = 2 /\ toks[1] = AS_WORD /\ IsIdentifier(toks[2])
    THEN [st |-> "ok", alias |-> <<toks[2]>>]
    ELSE Err

\* from ( select ITEMS [from NAME [[as] ALIAS]] ) [[as] ALIAS], the tokens
\* between the parentheses being `inner`
ParseDerived(inner, after) ==
    IF Len(inner) < 2 THEN Err
    ELSE IF inner[1] # SELECT_WORD THEN Err
    ELSE With(ParseItems(inner[2]), LAMBDA items :
         With(ParseFromTable(inner), LAMBDA from :
         With(ParseAlias(after), LAMBDA alias :
         IF items.st # "ok" \/ from.st # "ok" \/ alias.st # "ok" THEN Err
         ELSE [st |-> "ok",
               from |-> <<[relation |->
                              [kind |-> "Derived",
                               subquery |-> [kind |-> "Select",
                                             projection |-> items.items,
                                             from |-> from.from],
                               alias |-> alias.alias],
                           joins |-> <<>>]>>])))

ParseFrom(toks) ==
    IF Len(toks) >= 4 /\ toks[3] = FROM_WORD /\ toks[4] = <<"(">>
    THEN With({i \in 5..Len(toks) : toks[i] = <<")">>}, LAMBDA closing :
         IF closing = {} THEN Err
         ELSE ParseDerived(SubSeq(toks, 5, MinOf(closing) - 1),
                           SubSeq(toks, MinOf(closing) + 1, Len(toks))))
    ELSE ParseFromTable(toks)

ParseStatement(text) ==
    With(Tokens(text), LAMBDA toks :
    IF toks[1] \in {SET_WORD, USE_WORD, SHOW_WORD}
    THEN [st |-> "ok", stmt |-> [kind |-> "Other"]]
    ELSE IF toks[1] # SELECT_WORD \/ Len(toks) < 2 THEN Err
    ELSE With(ParseItems(toks[2]), LAMBDA items :
         With(ParseFrom(toks), LAMBDA from :
         IF items.st # "ok" \/ from.st # "ok" THEN Err
         ELSE [st |-> "ok",
               stmt |-> [kind |-> "Query",
                         body |-> [kind |-> "Select", projection |-> items.items,
                                   from |-> from.from]]])))

parse_sql(sql) ==
    With(SelectSeq(Split(sql, ";"), LAMBDA t : \E i \in 1..Len(t) : t[i] \notin SqlWhite),
         LAMBDA texts :
    With([i \in 1..Len(texts) |-> ParseStatement(texts[i])], LAMBDA each :
    IF \E i \in 1..Len(sql) : sql[i] \in NoSqlToken THEN Err
    ELSE IF \E i \in 1..Len(texts) : each[i].st # "ok" THEN Err
    ELSE [st |-> "ok", ast |-> [i \in 1..Len(texts) |-> each[i].stmt]]))

\* lines 152-166 of QueryDataType::query, the catalog being loaded: the
\* inferred columns, "parse" for a parse error, or the inference's failure
InferColumnTypes(query, data_type_info, default_schema) ==
    With(parse_sql(Replace(ToLower(query), STRAIGHT_JOIN, JOIN_WORD)), LAMBDA ast :
    IF ast.st # "ok" THEN [st |-> "parse"]
    ELSE get_columns_types_from_ast(ast.ast, data_type_info, default_schema))

SchemaNames == { <<"s">>, <<"S">> }
TableNames == { <<"u">>, <<"U">> }
ColumnNames == { <<"c">>, <<"C">> }
AliasNames == { <<"t">>, <<"T">> }
CatalogTypes == { "MYSQL_TYPE_LONGLONG", "MYSQL_TYPE_TINY" }

CatalogRows == [schema : SchemaNames, table : TableNames, column : ColumnNames,
                type : CatalogTypes]

MaxCatalog == 2

\* select ALIAS.COLUMN from SCHEMA.TABLE ALIAS
AliasedSelect(a) ==
    SELECT_WORD \o <<" ">> \o a.alias \o <<".">> \o a.column \o <<" ">> \o FROM_WORD
        \o <<" ">> \o a.schema \o <<".">> \o a.table \o <<" ">> \o a.alias

\* the catalogs an adapter holds once loaded: load_internals takes an empty
\* data_type_info as not loaded and loads again
LoadedCatalogs == {catalog \in SeqsUpTo(CatalogRows, MaxCatalog) : Len(catalog) > 0}

InitInfer ==
    /\ stage = "input"
    /\ arg \in [schema : SchemaNames, table : TableNames, column : ColumnNames,
                alias : AliasNames, catalog : LoadedCatalogs]
    /\ out = <<>>
    /\ NoPipeline

Infer ==
    /\ stage = "input"
    /\ stage' = "done"
    /\ out' = InferColumnTypes(AliasedSelect(arg), arg.catalog, <<>>)
    /\ UNCHANGED <<arg, pipeline>>

NextInfer == Infer

SpecInfer == InitInfer /\ [][NextInfer]_vars

\* the types the catalog holds for the column the select names
CatalogTypesOf(a) ==
    {a.catalog[i].type : i \in {j \in 1..Len(a.catalog) :
        /\ a.catalog[j].schema = a.schema
        /\ a.catalog[j].table = a.table
        /\ a.catalog[j].column = a.column}}

\* C8: for a select `select t.c from schema.table t` whose column the catalog
\* holds with type ty, the type inferred for output position 0 is ty.
C8_InferenceSound ==
    stage = "done" =>
        \A ty \in CatalogTypes :
            CatalogTypesOf(arg) = {ty} =>
                out.st = "ok" /\ Len(out.cols) >= 1 /\ out.cols[1].type = ty

\* the same for names written in lower case only
C8_LowerCaseSound ==
    (stage = "done" /\ ToLower(AliasedSelect(arg)) = AliasedSelect(arg)) =>
        \A ty \in CatalogTypes :
            CatalogTypesOf(arg) = {ty} =>
                out.st = "ok" /\ Len(out.cols) = 1 /\ out.cols[1].type = ty

----------------------------------------------------------------------------
(* get_data of a typed result over a reader, for every stream and every    *)
(* list of inferred columns.                                               *)

TypedFieldTexts == { <<>>, <<"a">>, <<"7">>, NULL_TEXT }
TypedCells == [text : TypedFieldTexts, term : {"\t", "\n"}]
InferredColumns == [name : { <<"n">> }, type : { TYPE_STRING, "MYSQL_TYPE_LONGLONG" }]

MaxTypedCells == 3
MaxInferred == 2

InitTyped ==
    /\ stage = "input"
    /\ arg \in [cells : SeqsUpTo(TypedCells, MaxTypedCells),
                column_types : SeqsUpTo(InferredColumns, MaxInferred),
                some : BOOLEAN]
    /\ out = <<>>
    /\ NoPipeline

GetTypedData ==
    /\ stage = "input"
    /\ stage' = "done"
    /\ out' = [reader |-> ReaderData(EncodeCells(arg.cells)),
               typed |-> TypedGetData(IF arg.some
                                      THEN <<ReaderData(EncodeCells(arg.cells))>>
                                      ELSE <<>>,
                                      arg.column_types)]
    /\ UNCHANGED <<arg, pipeline>>

NextTyped == GetTypedData

SpecTyped == InitTyped /\ [][NextTyped]_vars

\* every row a result yields has as many values as the result's header
RowsMatchHeader(data) ==
    data.st = "ok" /\ data.columns.st = "ok" =>
        \A i \in 1..Len(data.rows) :
            data.rows[i].st = "ok" => Len(data.rows[i].row) = Len(data.columns.value)

\* C7: every row delivered for a result, as yielded by the reader and as
\* yielded after coercion by the type-inference adapter, has exactly as many
\* values as the result's header has columns, for every input stream.
C7_RowLengthEqualsHeader ==
    stage = "done" =>
        /\ RowsMatchHeader([st |-> "ok"] @@ out.reader)
        /\ RowsMatchHeader(out.typed)

\* C9 as claimed: whenever the number of inferred columns differs from the
\* number of columns of the actual header, get_data of the typed result fails.
C9_GuardEveryPair ==
    (stage = "done" /\ arg.some
        /\ Len(arg.column_types) # Len(out.reader.columns.value)) =>
        out.typed.st = "panic"

\* C9 amended: get_data fails whenever a non-empty list of inferred columns
\* differs in length from the actual header; an empty list stands for "no
\* inference" and the inner header and rows are returned as they are.
C9_GuardNonEmpty ==
    (stage = "done" /\ arg.some
        /\ Len(arg.column_types) # Len(out.reader.columns.value)) =>
        IF Len(arg.column_types) > 0
        THEN out.typed.st = "panic"
        ELSE out.typed = [st |-> "ok"] @@ out.reader

\* C9 witness: two inferred columns against a header of one column, failed
C9_Witness ==
    /\ stage = "done" /\ arg.some
    /\ Len(arg.column_types) = 2
    /\ Len(out.reader.columns.value) = 1
    /\ Len(out.reader.rows) > 0
    /\ out.typed.st = "panic"

----------------------------------------------------------------------------
(* The pipeline.  A query result is Ok(None), Ok(Some(result)), a failure  *)
(* or the panic of the connection's thread; a result is lazy, and GetData  *)
(* is its get_data.  Every stage returns the connection's state after the  *)
(* call, its own result and the log of the stage calls made, in order.     *)

OkNone == [st |-> "ok", value |-> <<>>]
OkSome(r) == [st |-> "ok", value |-> <<r>>]
Failure(kind, error) == [st |-> "err", kind |-> kind, error |-> error]

Entry(name, text, res) == [stage |-> name, text |-> text, res |-> res]

ReaderQueryResult(stream) == [kind |-> "Reader", stream |-> stream]

RECURSIVE GetData(_)
\* QueryResult::get_data of the three implementations, and of any other
\* implementation of the trait, given by the header and the rows it yields
GetData(result) ==
    CASE result.kind = "Reader" -> [st |-> "ok"] @@ ReaderData(result.stream)
      [] result.kind = "Typed" ->
            IF result.result = <<>> THEN TypedGetData(<<>>, result.column_types)
            ELSE Then(GetData(result.result[1]), LAMBDA inner :
                      TypedGetData(<<inner>>, result.column_types))
      [] result.kind = "Result" -> GetData(result.result)
      [] result.kind = "Data" ->
            [st |-> "ok", columns |-> result.columns, rows |-> result.rows]
      [] OTHER ->
            [st |-> "ok",
             columns |-> [st |-> "ok", value |-> result.columns],
             rows |-> [i \in 1..Len(result.rows) |-> [st |-> "ok", row |-> result.rows[i]]]]

----------------------------------------------------------------------------
(* RunopsApi::query (runops.rs).  What the remote does is the response:     *)
(*   send       "ok", or "err" when the POST or its JSON fails              *)
(*   task_logs  the task_logs of the answer                                *)
(*   fetch      "ok", or "err" when the GET of the logs fails               *)
(*   body       the body of the logs fetched                               *)
(*   polls      what the polls of the task's logs meet, in order: "400",    *)
(*              "200", another status or "err"                              *)

HTTPS == <<"h","t","t","p","s",":","/","/">>
EMPTY_LOGS == <<"T","a","s","k"," ","r","e","t","u","r","n","e","d"," ","e","m","p","t","y"," ","l","o","g","s">>
ERROR_WORD == <<"E","R","R","O","R">>
TASK_RUNNING == <<"Y","o","u","r"," ","t","a","s","k"," ","i","s"," ","r","u","n","n","i","n","g",".">>

\* the poll that gives up: a 400 ends the loop with a failure
PollStep_giving_up(status, resp) ==
    IF status = "200" /\ resp.fetch = "ok" THEN OkSome(ReaderQueryResult(resp.body))
    ELSE Failure("Transport", <<>>)

\* one turn of the loop (lines 93-108): a 400 continues, a 200 fetches the
\* logs, another status and a request that fails are failures
PollStep(status, resp) ==
    IF status = "400" THEN [st |-> "polling"]
    ELSE IF status = "200" /\ resp.fetch = "ok" THEN OkSome(ReaderQueryResult(resp.body))
    ELSE Failure("Transport", <<>>)

RECURSIVE PollLoop(_)
\* the poll loop: the first poll that is not answered 400 decides; a task that
\* is answered 400 for ever never returns
PollLoop(resp) ==
    IF resp.polls = <<>> THEN [st |-> "polling"]
    ELSE IF PollStep(Head(resp.polls), resp).st # "polling"
    THEN PollStep(Head(resp.polls), resp)
    ELSE PollLoop([resp EXCEPT !.polls = Tail(@)])

\* the dispatch that takes every text beginning with the empty-logs text for it
RunopsApi_result_empty_prefix(resp) ==
    IF resp.send # "ok" THEN Failure("Transport", <<>>)
    ELSE IF StartsWith(resp.task_logs, HTTPS)
    THEN IF resp.fetch = "ok" THEN OkSome(ReaderQueryResult(resp.body))
         ELSE Failure("Transport", <<>>)
    ELSE IF StartsWith(resp.task_logs, EMPTY_LOGS) THEN OkNone
    ELSE IF StartsWith(resp.task_logs, ERROR_WORD) THEN Failure("SqlError", resp.task_logs)
    ELSE IF StartsWith(resp.task_logs, TASK_RUNNING) THEN PollLoop(resp)
    ELSE OkSome(ReaderQueryResult(resp.task_logs))

\* RunopsApi::query (lines 67-111) up to the poll loop, and the loop
RunopsApi_result(resp) ==
    IF resp.send # "ok" THEN Failure("Transport", <<>>)
    ELSE IF StartsWith(resp.task_logs, HTTPS)
    THEN IF resp.fetch = "ok" THEN OkSome(ReaderQueryResult(resp.body))
         ELSE Failure("Transport", <<>>)
    ELSE IF resp.task_logs = EMPTY_LOGS THEN OkNone
    ELSE IF StartsWith(resp.task_logs, ERROR_WORD) THEN Failure("SqlError", resp.task_logs)
    ELSE IF StartsWith(resp.task_logs, TASK_RUNNING) THEN PollLoop(resp)
    ELSE OkSome(ReaderQueryResult(resp.task_logs))

\* the log keeps what the remote answered
RunopsApi_query(cs, query, resp) ==
    With(RunopsApi_result(resp), LAMBDA res :
    [cs |-> cs, res |-> res,
     log |-> <<[stage |-> "RunopsApi", text |-> query, res |-> res, resp |-> resp]>>])

----------------------------------------------------------------------------
(* QueryAccumulator::query (query_accumulator.rs) *)

SEPARATOR == <<";", "\n">>

\* an insert that keeps the place of a statement already in the set
InsertKeepingPlace(acc_, query) ==
    IF \E i \in 1..Len(acc_) : acc_[i] = query THEN acc_ ELSE Append(acc_, query)

\* an insert that puts the statement before the others
InsertAtFront(acc_, query) ==
    <<query>> \o SelectSeq(acc_, LAMBDA s : s # query)

\* LinkedHashSet::insert of ritelinked: the value is put at the back, and a
\* value already in the set is moved there
LinkedHashSetInsert(acc_, query) ==
    Append(SelectSeq(acc_, LAMBDA s : s # query), query)

\* the text the accumulator forwards for a query that is no set statement
ReplayText(acc_, query) ==
    IF acc_ = <<>> THEN query ELSE Join(acc_, SEPARATOR) \o SEPARATOR \o query

\* an accumulator that forgets its statements once they are replayed
QueryAccumulator_query_draining(cs, query, resp) ==
    IF StartsWith(ToLower(query), SET_WORD)
    THEN [cs |-> [cs EXCEPT !.acc = LinkedHashSetInsert(cs.acc, query)],
          res |-> OkNone,
          log |-> <<Entry("QueryAccumulator", query, OkNone)>>]
    ELSE With(RunopsApi_query(cs, ReplayText(cs.acc, query), resp), LAMBDA inner :
         [cs |-> [inner.cs EXCEPT !.acc = <<>>], res |-> inner.res,
          log |-> <<Entry("QueryAccumulator", query, inner.res)>> \o inner.log])

QueryAccumulator_query(cs, query, resp) ==
    IF StartsWith(ToLower(query), SET_WORD)
    THEN [cs |-> [cs EXCEPT !.acc = LinkedHashSetInsert(cs.acc, query)],
          res |-> OkNone,
          log |-> <<Entry("QueryAccumulator", query, OkNone)>>]
    ELSE With(RunopsApi_query(cs, ReplayText(cs.acc, query), resp), LAMBDA inner :
         [cs |-> inner.cs, res |-> inner.res,
          log |-> <<Entry("QueryAccumulator", query, inner.res)>> \o inner.log])

----------------------------------------------------------------------------
(* QueryDataType::query and load_internals (query_data_type.rs) *)

CATALOG_SQL ==
    <<"\n"," "," "," "," "," "," "," "," "," "," "," "," ","S","E","L","E","C","T"," ",
      "T","A","B","L","E","_","S","C","H","E","M","A",","," ","T","A","B","L","E","_",
      "N","A","M","E",","," ","C","O","L","U","M","N","_","N","A","M","E",","," ","D",
      "A","T","A","_","T","Y","P","E",","," ","I","S","_","N","U","L","L","A","B","L",
      "E","\n"," "," "," "," "," "," "," "," "," "," "," "," ","F","R","O","M"," ","I",
      "N","F","O","R","M","A","T","I","O","N","_","S","C","H","E","M","A",".","C","O",
      "L","U","M","N","S","\n"," "," "," "," "," "," "," "," "," "," "," "," ","W","H",
      "E","R","E"," ","T","A","B","L","E","_","S","C","H","E","M","A"," ","N","O","T",
      " ","I","N"," ","(","'","i","n","f","o","r","m","a","t","i","o","n","_","s","c",
      "h","e","m","a","'",","," ","'","p","e","r","f","o","r","m","a","n","c","e","_",
      "s","c","h","e","m","a","'",","," ","'","m","y","s","q","l","'",","," ","'","p",
      "g","_","c","a","t","a","l","o","g","'",")","\n"," "," "," "," "," "," "," "," ",
      " "," "," "," ","O","R","D","E","R"," ","B","Y"," ","T","A","B","L","E","_","S",
      "C","H","E","M","A",","," ","T","A","B","L","E","_","N","A","M","E",","," ","O",
      "R","D","I","N","A","L","_","P","O","S","I","T","I","O","N",";","\n"," "," "," ",
      " "," "," "," "," ">>

DATABASE_SQL == <<"s","e","l","e","c","t"," ","d","a","t","a","b","a","s","e","(",")",";">>

MapDataType(tag) ==
    CASE tag = <<"b","i","g","i","n","t">> -> "MYSQL_TYPE_LONGLONG"
      [] tag = <<"v","a","r","c","h","a","r">> -> "MYSQL_TYPE_VAR_STRING"
      [] tag = <<"t","i","n","y","i","n","t">> -> "MYSQL_TYPE_TINY"
      [] tag = <<"d","a","t","e","t","i","m","e">> -> "MYSQL_TYPE_DATETIME"
      [] tag = <<"i","n","t">> -> "MYSQL_TYPE_LONG"
      [] tag = <<"m","e","d","i","u","m","i","n","t">> -> "MYSQL_TYPE_LONG"
      [] tag = <<"t","e","x","t">> -> "MYSQL_TYPE_STRING"
      [] tag = <<"e","n","u","m">> -> "MYSQL_TYPE_ENUM"
      [] tag = <<"d","e","c","i","m","a","l">> -> "MYSQL_TYPE_NEWDECIMAL"
      [] tag = <<"d","a","t","e">> -> "MYSQL_TYPE_DATE"
      [] tag = <<"b","i","n","a","r","y">> -> "MYSQL_TYPE_BLOB"
      [] tag = <<"d","o","u","b","l","e">> -> "MYSQL_TYPE_DOUBLE"
      [] tag = <<"c","h","a","r">> -> "MYSQL_TYPE_STRING"
      [] tag = <<"t","i","n","y","t","e","x","t">> -> "MYSQL_TYPE_STRING"
      [] tag = <<"t","i","m","e">> -> "MYSQL_TYPE_TIME"
      [] tag = <<"t","i","m","e","s","t","a","m","p">> -> "MYSQL_TYPE_TIMESTAMP"
      [] tag = <<"s","m","a","l","l","i","n","t">> -> "MYSQL_TYPE_INT24"
      [] tag = <<"b","l","o","b">> -> "MYSQL_TYPE_BLOB"
      [] tag = <<"f","l","o","a","t">> -> "MYSQL_TYPE_FLOAT"
      [] tag = <<"m","e","d","i","u","m","b","l","o","b">> -> "MYSQL_TYPE_MEDIUM_BLOB"
      [] tag = <<"l","o","n","g","t","e","x","t">> -> "MYSQL_TYPE_STRING"
      [] tag = <<"m","e","d","i","u","m","t","e","x","t">> -> "MYSQL_TYPE_STRING"
      [] tag = <<"v","a","r","b","i","n","a","r","y">> -> "MYSQL_TYPE_BLOB"
      [] tag = <<"y","e","a","r">> -> "MYSQL_TYPE_YEAR"
      [] tag = <<"b","i","t">> -> "MYSQL_TYPE_BIT"
      [] OTHER -> TYPE_STRING

\* the loop over the rows of the catalog (lines 49-87): to_string panics on a
\* value that is no string, the index on a row of fewer than four values
RECURSIVE LoadTypeMap(_)
LoadTypeMap(rows) ==
    IF Len(rows) = 0 THEN [st |-> "ok", type_map |-> <<>>]
    ELSE IF rows[1].st # "ok" THEN [st |-> rows[1].st]
    ELSE IF Len(rows[1].row) < 4 \/ \E i \in 1..4 : rows[1].row[i].tag # "String"
    THEN Panic
    ELSE Then(LoadTypeMap(Tail(rows)), LAMBDA rest :
         [st |-> "ok",
          type_map |-> <<[schema |-> rows[1].row[1].value,
                          table |-> rows[1].row[2].value,
                          column |-> rows[1].row[3].value,
                          type |-> MapDataType(rows[1].row[4].value)]>>
                       \o rest.type_map])

\* the current schema read from the answer to the schema query (lines 91-96)
SchemaLoaded(call, data, log) ==
    IF data.st # "ok" \/ Len(data.rows) = 0
    THEN [st |-> "panic", cs |-> call.cs, log |-> log]
    ELSE IF data.rows[1].st # "ok"
    THEN [st |-> data.rows[1].st, cs |-> call.cs, log |-> log]
    ELSE IF (IF Len(data.rows[1].row) = 0 THEN TRUE
             ELSE data.rows[1].row[1].tag # "String")
    THEN [st |-> "panic", cs |-> call.cs, log |-> log]
    ELSE [st |-> "ok",
          cs |-> [call.cs EXCEPT !.default_schema = data.rows[1].row[1].value],
          log |-> log]

\* the second half of load_internals (lines 89-97): the current schema
LoadDefaultSchema(cs, resp, log) ==
    IF cs.default_schema # <<>> THEN [st |-> "ok", cs |-> cs, log |-> log]
    ELSE With(QueryAccumulator_query(cs, DATABASE_SQL, resp), LAMBDA call :
         IF call.res.st # "ok"
         THEN [st |-> call.res.st, cs |-> call.cs, log |-> log \o call.log]
         ELSE IF call.res.value = <<>>
         THEN [st |-> "panic", cs |-> call.cs, log |-> log \o call.log]
         ELSE SchemaLoaded(call, GetData(call.res.value[1]), log \o call.log))

\* the catalog read from the answer to the catalog query (lines 49-88), and the
\* schema after it
CatalogLoaded(call, loaded, resps) ==
    IF loaded.st # "ok"
    THEN [st |-> loaded.st, cs |-> call.cs, log |-> call.log]
    ELSE LoadDefaultSchema([call.cs EXCEPT !.data_type_info = loaded.type_map],
                           resps.database, call.log)

\* the rows of the catalog as get_data gives them
TypeMapOf(data) == IF data.st # "ok" THEN Panic ELSE LoadTypeMap(data.rows)

\* load_internals: nothing when the catalog is loaded; else the catalog query
\* and, when no schema is set, the schema query, through the inner stage
load_internals(cs, resps) ==
    IF cs.data_type_info # <<>> THEN [st |-> "ok", cs |-> cs, log |-> <<>>]
    ELSE With(QueryAccumulator_query(cs, CATALOG_SQL, resps.catalog), LAMBDA call :
         IF call.res.st # "ok"
         THEN [st |-> call.res.st, cs |-> call.cs, log |-> call.log]
         ELSE IF call.res.value = <<>>
         THEN [st |-> "panic", cs |-> call.cs, log |-> call.log]
         ELSE CatalogLoaded(call, TypeMapOf(GetData(call.res.value[1])), resps))

\* a result without inferred types that wraps an absent result too
UntypedOfOption(res) ==
    IF res.st = "ok"
    THEN OkSome([kind |-> "Typed", result |-> res.value, column_types |-> <<>>])
    ELSE res

\* a result without inferred types (lines 144-150, 158-164, 172-178)
Untyped(res) ==
    IF res.st = "ok" /\ res.value # <<>>
    THEN OkSome([kind |-> "Typed", result |-> res.value, column_types |-> <<>>])
    ELSE res

\* the first token of the statement, taken for the schema
UsedKeyword(query) ==
    With(Tokens(query), LAMBDA toks : IF Len(toks) >= 1 THEN toks[1] ELSE <<>>)

\* the schema a use statement names (line 132)
UsedSchema(query) ==
    With(Tokens(query), LAMBDA toks : IF Len(toks) >= 2 THEN toks[2] ELSE <<>>)

DataTypeOutcome(cs, query, res, log) ==
    [cs |-> cs, res |-> res, log |-> <<Entry("QueryDataType", query, res)>> \o log]

\* a statement the adapter forwards without inference (lines 144-150, 158-164)
Forwarded(query, direct) ==
    DataTypeOutcome(direct.cs, query, Untyped(direct.res), direct.log)

\* the query sent after the inference (lines 167-186)
Inferred(query, loaded, types, call) ==
    IF types.st # "ok"
    THEN DataTypeOutcome(call.cs, query, Untyped(call.res), loaded.log \o call.log)
    ELSE DataTypeOutcome(call.cs, query,
             IF call.res.st # "ok" THEN call.res
             ELSE OkSome([kind |-> "Typed", result |-> call.res.value,
                          column_types |-> types.cols]),
             loaded.log \o call.log)

\* an inference that extends the catalog of the adapter itself
AfterInferenceInPlace(cs, types) ==
    IF types.st = "ok" THEN [cs EXCEPT !.data_type_info = types.data_type_info] ELSE cs

\* the fields of the adapter after get_columns_types_from_ast: the inference
\* worked on a clone of data_type_info (line 111), the field is as it was
AfterInference(cs, types) == cs

\* the catalog loaded or not, the inference and the query (lines 152-186)
InferAndSend(query, resps, ast, loaded, types) ==
    IF types.st = "panic"
    THEN DataTypeOutcome(loaded.cs, query, Panic, loaded.log)
    ELSE Inferred(query, loaded, types,
                  QueryAccumulator_query(AfterInference(loaded.cs, types), query,
                                         resps.query))

\* the inference over the catalog that load_internals left
TypesOf(ast, loaded) ==
    IF loaded.st # "ok" THEN [st |-> loaded.st]
    ELSE get_columns_types_from_ast(ast.ast, loaded.cs.data_type_info,
                                    loaded.cs.default_schema)

QueryDataType_query(cs, query, resps) ==
    IF StartsWith(ToLower(query), USE_WORD)
    THEN With(QueryAccumulator_query(cs, query, resps.query), LAMBDA direct :
         DataTypeOutcome(
             IF direct.res.st = "ok"
             THEN [direct.cs EXCEPT !.default_schema = UsedSchema(query)]
             ELSE direct.cs,
             query, Untyped(direct.res), direct.log))
    ELSE IF ~StartsWith(ToLower(query), SELECT_WORD)
    THEN Forwarded(query, QueryAccumulator_query(cs, query, resps.query))
    ELSE With(parse_sql(Replace(ToLower(query), STRAIGHT_JOIN, JOIN_WORD)), LAMBDA ast :
         IF ast.st # "ok"
         THEN Forwarded(query, QueryAccumulator_query(cs, query, resps.query))
         ELSE With(load_internals(cs, resps), LAMBDA loaded :
              InferAndSend(query, resps, ast, loaded, TypesOf(ast, loaded))))

----------------------------------------------------------------------------
(* QueryFilter::query (query_filter.rs) and QuerySanitizer::query          *)
(* (query_sanitizer.rs), wired as construct_query_executor and             *)
(* construct_query_executor_with_data_type wire them (main.rs).            *)

SHOW_WARNINGS == <<"S","H","O","W"," ","W","A","R","N","I","N","G","S">>

\* the stage the filter owns: the adapter with type discovery, else the
\* accumulator
FilterInner(typed, cs, query, resps) ==
    IF typed THEN QueryDataType_query(cs, query, resps)
    ELSE QueryAccumulator_query(cs, query, resps.query)

\* a filter that drops every spelling of SHOW WARNINGS
QueryFilter_query_any_case(typed, cs, query, resps) ==
    IF ToLower(query) = ToLower(SHOW_WARNINGS)
    THEN [cs |-> cs, res |-> OkNone, log |-> <<Entry("QueryFilter", query, OkNone)>>]
    ELSE With(FilterInner(typed, cs, query, resps), LAMBDA inner :
         [cs |-> inner.cs, res |-> inner.res,
          log |-> <<Entry("QueryFilter", query, inner.res)>> \o inner.log])

QueryFilter_query(typed, cs, query, resps) ==
    IF query = SHOW_WARNINGS
    THEN [cs |-> cs, res |-> OkNone, log |-> <<Entry("QueryFilter", query, OkNone)>>]
    ELSE With(FilterInner(typed, cs, query, resps), LAMBDA inner :
         [cs |-> inner.cs, res |-> inner.res,
          log |-> <<Entry("QueryFilter", query, inner.res)>> \o inner.log])

QuerySanitizer_query(typed, cs, query, resps) ==
    With(QueryFilter_query(typed, cs, SanitizedText(query), resps), LAMBDA inner :
    [cs |-> inner.cs, res |-> inner.res,
     log |-> <<Entry("QuerySanitizer", query, inner.res)>> \o inner.log])

----------------------------------------------------------------------------
(* QueryCache::query and InMemoryQueryStorage (query_cache.rs).  The map of *)
(* a port is a function from the texts stored to their entries.            *)

\* a get that reads an entry while its rows are not written yet
InMemoryQueryStorage_get_torn(map, query) ==
    IF query \in DOMAIN map THEN <<[map[query] EXCEPT !.rows = <<>>]>> ELSE <<>>

\* DashMap::get and the clone of the entry, under the lock of its shard
InMemoryQueryStorage_get(map, query) ==
    IF query \in DOMAIN map THEN <<map[query]>> ELSE <<>>

\* a store that keeps the entry the map already holds
InMemoryQueryStorage_store_absent(map, query, entry) ==
    [k \in DOMAIN map \cup {query} |-> IF k \in DOMAIN map THEN map[k] ELSE entry]

\* DashMap::insert of one whole CachedResult, under the lock of its shard: the
\* entry of the text is replaced
InMemoryQueryStorage_store(map, query, entry) ==
    [k \in DOMAIN map \cup {query} |-> IF k = query THEN entry ELSE map[k]]

CachedResult(entry) ==
    [kind |-> "CachedResult", columns |-> entry.columns, rows |-> entry.rows]

\* a collect that keeps the rows read before the first that fails
Materialize_partial(result) ==
    With(GetData(result), LAMBDA data :
    IF data.st # "ok" THEN Panic
    ELSE IF data.columns.st # "ok" THEN Failure("Header", <<>>)
    ELSE With(SelectSeq(data.rows, LAMBDA r : r.st = "ok"), LAMBDA read :
         [st |-> "ok",
          entry |-> [columns |-> data.columns.value,
                     rows |-> [i \in 1..Len(read) |-> read[i].row]]]))

\* lines 65-67: the header, then the rows collected up to the first that fails
Materialize(result) ==
    With(GetData(result), LAMBDA data :
    IF data.st # "ok" THEN Panic
    ELSE IF data.columns.st # "ok" THEN Failure("Header", <<>>)
    ELSE With({i \in 1..Len(data.rows) : data.rows[i].st # "ok"}, LAMBDA bad :
         IF bad # {}
         THEN IF data.rows[MinOf(bad)].st = "panic" THEN Panic ELSE Failure("Row", <<>>)
         ELSE [st |-> "ok",
               entry |-> [columns |-> data.columns.value,
                          rows |-> [i \in 1..Len(data.rows) |-> data.rows[i].row]]]))

\* lines 68-72: the entry stored and returned
Stored(done) ==
    IF done.st # "ok" THEN [res |-> done, store |-> <<>>]
    ELSE [res |-> OkSome(CachedResult(done.entry)), store |-> <<done.entry>>]

\* the miss arm with every result stored, on the allow-list or not
QueryCache_miss_storing_all(queries_to_cache, query, inner) ==
    IF inner.st # "ok" \/ inner.value = <<>> THEN [res |-> inner, store |-> <<>>]
    ELSE Stored(Materialize(inner.value[1]))

\* the miss arm that stores the result of every select
QueryCache_miss_storing_selects(queries_to_cache, query, inner) ==
    IF inner.st # "ok" \/ inner.value = <<>> THEN [res |-> inner, store |-> <<>>]
    ELSE IF ~StartsWith(ToLower(query), SELECT_WORD)
    THEN [res |-> OkSome([kind |-> "Result", result |-> inner.value[1]]), store |-> <<>>]
    ELSE Stored(Materialize(inner.value[1]))

\* the miss arm (lines 60-76), the inner stage having returned `inner`: the
\* result of the cache and the entry it stores, if any
QueryCache_miss(queries_to_cache, query, inner) ==
    IF inner.st # "ok" \/ inner.value = <<>> THEN [res |-> inner, store |-> <<>>]
    ELSE IF query \notin queries_to_cache
    THEN [res |-> OkSome([kind |-> "Result", result |-> inner.value[1]]), store |-> <<>>]
    ELSE Stored(Materialize(inner.value[1]))

\* line 68: the map after the miss arm
StorageAfter(map, query, done) ==
    IF done.store = <<>> THEN map
    ELSE InMemoryQueryStorage_store(map, query, done.store[1])

----------------------------------------------------------------------------
(* The MySQL front-end (mysql_query_executor_backend.rs).  What the client *)
(* is sent for a command is a packet:                                      *)
(*   kind     "Completed" (an OK packet), "ResultSet", "Error", "Prepared"  *)
(*            or "Nothing" (no packet: on_close, or a thread that died      *)
(*            before it wrote)                                             *)
(*   code     the error kind of an Error packet                             *)
(*   message  the message of an Error packet                                *)
(*   columns  the header of a ResultSet                                     *)
(*   rows     the rows of a ResultSet written so far                         *)
(*   id       the statement id of a Prepared packet                         *)
(*   params   the parameter columns of a Prepared packet                    *)

Packet(kind, code, message, columns, rows) ==
    [kind |-> kind, code |-> code, message |-> message, columns |-> columns,
     rows |-> rows, id |-> 0, params |-> <<>>]

NothingWritten == Packet("Nothing", "", <<>>, <<>>, <<>>)

\* the rows of an iterator up to the first that is no Ok
RECURSIVE RowsBeforeFailure(_)
RowsBeforeFailure(rows) ==
    IF Len(rows) = 0 \/ rows[1].st # "ok" THEN <<>>
    ELSE <<rows[1].row>> \o RowsBeforeFailure(Tail(rows))

\* a loop that writes every row, up to the first the iterator fails on
\* (lines 123-130)
WriteEveryRow(columns, rows) ==
    With(RowsBeforeFailure(rows), LAMBDA written :
    IF Len(written) = Len(rows)
    THEN [st |-> "ok", packet |-> Packet("ResultSet", "", <<>>, columns, written)]
    ELSE [st |-> rows[Len(written) + 1].st,
          packet |-> Packet("ResultSet", "", <<>>, columns, written)])

ROW_END == <<"r","o","w",")">>
ROWS_END == <<"r","o","w","s",")">>

\* the summary line of the task API: one value, a string that ends with
\* "row)" or "rows)" (postgres_query_executor_backend.rs, lines 58-64)
IsSummaryRow(row) ==
    /\ Len(row) = 1
    /\ IF row[1].tag = "String"
       THEN EndsWith(row[1].value, ROW_END) \/ EndsWith(row[1].value, ROWS_END)
       ELSE FALSE

\* ToSqlValue::as_str_value (lines 256-265): the bytes of a String, and the
\* panic of todo!() for every other value
as_str_value(column_value) ==
    IF column_value.tag = "String" THEN [st |-> "ok", bytes |-> column_value.value]
    ELSE Panic

\* the loop of do_execute over the rows (lines 56-67): a row the iterator
\* fails on ends it with the error, a summary row is skipped, and a row is
\* written when each of its values has a text
RECURSIVE WriteRowsSkippingSummary(_)
WriteRowsSkippingSummary(rows) ==
    IF Len(rows) = 0 THEN [st |-> "ok", written |-> <<>>]
    ELSE IF rows[1].st # "ok" THEN [st |-> rows[1].st, written |-> <<>>]
    ELSE IF IsSummaryRow(rows[1].row) THEN WriteRowsSkippingSummary(Tail(rows))
    ELSE IF \E i \in 1..Len(rows[1].row) : as_str_value(rows[1].row[i]).st # "ok"
    THEN [st |-> "panic", written |-> <<>>]
    ELSE With(WriteRowsSkippingSummary(Tail(rows)), LAMBDA rest :
         [st |-> rest.st, written |-> <<rows[1].row>> \o rest.written])

\* the rows written under the columns (lines 54-69)
WriteRowsButSummary(columns, rows) ==
    With(WriteRowsSkippingSummary(rows), LAMBDA done :
    [st |-> done.st, packet |-> Packet("ResultSet", "", <<>>, columns, done.written)])

\* From<Column> for MySqlColumn (lines 13-53): the column of the wire has the
\* name of the column of the pipeline and no table; its type is the wire
\* type of the type name, which is the type the pipeline's column holds (the
\* names and types of lines 20-49 are those of load_internals, a column
\* without a type name is a MYSQL_TYPE_STRING)
MySqlColumn(column) ==
    [table |-> "", column |-> column.column, coltype |-> column.coltype]

\* the arm of a result (lines 114-131), `data` being what get_data returned
WriteResult(data) ==
    IF data.st # "ok" THEN [st |-> "panic", packet |-> NothingWritten]
    ELSE IF data.columns.st # "ok" THEN [st |-> "err", packet |-> NothingWritten]
    ELSE IF Len(data.columns.value) = 0
    THEN [st |-> "ok", packet |-> Packet("Completed", "", <<>>, <<>>, <<>>)]
    ELSE WriteEveryRow([i \in 1..Len(data.columns.value) |->
                           MySqlColumn(data.columns.value[i])],
                       data.rows)

\* an error of the pipeline that is no SqlError left as fatal as any other
do_query_failing(res) ==
    IF res.st = "panic" THEN [st |-> "panic", packet |-> NothingWritten]
    ELSE IF res.st # "ok" THEN [st |-> "err", packet |-> NothingWritten]
    ELSE IF res.value = <<>>
    THEN [st |-> "ok", packet |-> Packet("ResultSet", "", <<>>, <<>>, <<>>)]
    ELSE WriteResult(GetData(res.value[1]))

\* Backend::do_query, `res` being what the pipeline returned: the packet
\* written and Ok, the error returned, or the panic
do_query(res) ==
    IF res.st = "panic" THEN [st |-> "panic", packet |-> NothingWritten]
    ELSE IF res.st # "ok"
    THEN IF res.kind = "SqlError"
         THEN [st |-> "ok",
               packet |-> Packet("Error", "ER_ERROR_ON_READ", res.error, <<>>, <<>>)]
         ELSE [st |-> "err", packet |-> NothingWritten]
    ELSE IF res.value = <<>>
    THEN [st |-> "ok", packet |-> Packet("ResultSet", "", <<>>, <<>>, <<>>)]
    ELSE WriteResult(GetData(res.value[1]))

\* Backend::on_query: the unwrap of what do_query returned, after which the
\* thread of the connection lives or not
on_query(res) ==
    With(do_query(res), LAMBDA done : [packet |-> done.packet, alive |-> done.st = "ok"])

\* a column of the PostgreSQL wire of type text (lines 48-51 and 177-180)
TextColumn(name) == [name |-> name, column_type |-> "TEXT"]

\* PostgresBackend::do_execute without describe_columns, `res` being what the
\* pipeline returned
do_execute(res) ==
    IF res.st # "ok" THEN [st |-> res.st, packet |-> NothingWritten]
    ELSE IF res.value = <<>>
    THEN [st |-> "ok", packet |-> Packet("Completed", "", <<>>, <<>>, <<>>)]
    ELSE With(GetData(res.value[1]), LAMBDA data :
         IF data.st # "ok" THEN [st |-> "panic", packet |-> NothingWritten]
         ELSE IF data.columns.st # "ok" THEN [st |-> "err", packet |-> NothingWritten]
         ELSE WriteRowsButSummary([i \in 1..Len(data.columns.value) |->
                                      TextColumn(data.columns.value[i].column)],
                                  data.rows))

\* the parameter column of a placeholder (lines 159-164)
PLACEHOLDER_COLUMN == [table |-> "none", column |-> <<"?">>, coltype |-> TYPE_STRING]

\* a prepare that replies the length of the list after the append
on_prepare_counting(prepared_statements, query) ==
    [prepared_statements |-> Append(prepared_statements, query),
     packet |-> [Packet("Prepared", "", <<>>, <<>>, <<>>) EXCEPT
                    !.id = Len(Append(prepared_statements, query)),
                    !.params = [i \in 1..Len(SelectSeq(query, LAMBDA ch : ch = "?")) |->
                                   PLACEHOLDER_COLUMN]]]

\* Backend::on_prepare: the statement list and the reply
on_prepare(prepared_statements, query) ==
    [prepared_statements |-> Append(prepared_statements, query),
     packet |-> [Packet("Prepared", "", <<>>, <<>>, <<>>) EXCEPT
                    !.id = Len(Append(prepared_statements, query)) - 1,
                    !.params = [i \in 1..Len(SelectSeq(query, LAMBDA ch : ch = "?")) |->
                                   PLACEHOLDER_COLUMN]]]

\* escaped
escaped(value) == <<"'">> \o value \o <<"'">>

\* format!("{}", n) of a natural number
RECURSIVE Decimal(_)
Decimal(n) == IF n < 10 THEN <<DIGITS[n + 1]>> ELSE Decimal(n \div 10) \o <<DIGITS[(n % 10) + 1]>>

\* n zeros
Zeros(n) == [i \in 1..n |-> "0"]

\* format!("{:0w$}", n) of a natural number: zeros before it up to the width
Padded(n, width) ==
    IF Len(Decimal(n)) >= width THEN Decimal(n)
    ELSE Zeros(width - Len(Decimal(n))) \o Decimal(n)

\* format!("{}", value) of a finite f64, the value being coefficient * 10^exp
\* with the shortest coefficient: no exponent is written, and no point
\* when the value is a whole number
DoubleText(coefficient, exp) ==
    LET digits == Decimal(IF coefficient < 0 THEN 0 - coefficient ELSE coefficient)
        sign == IF coefficient < 0 THEN <<"-">> ELSE <<>>
        places == 0 - exp
    IN  IF exp >= 0 THEN sign \o digits \o (IF coefficient = 0 THEN <<>> ELSE Zeros(exp))
        ELSE IF Len(digits) > places
        THEN sign \o SubSeq(digits, 1, Len(digits) - places) \o <<".">>
                 \o SubSeq(digits, Len(digits) - places + 1, Len(digits))
        ELSE sign \o <<"0", ".">> \o Zeros(places - Len(digits)) \o digits

\* NaiveDate::to_string: %Y-%m-%d, the year of four digits, or signed beyond
DateText(year, month, day) ==
    (IF year <= 9999 THEN Padded(year, 4) ELSE <<"+">> \o Decimal(year))
        \o <<"-">> \o Padded(month, 2) \o <<"-">> \o Padded(day, 2)

\* NaiveTime::to_string of a time of whole seconds
TimeText(hour, minute, second) ==
    Padded(hour, 2) \o <<":">> \o Padded(minute, 2) \o <<":">> \o Padded(second, 2)

\* the text of a parameter (lines 182-199); "panic" for a time, and for a
\* date or a time of the day that NaiveDate::from and NaiveDateTime::from of
\* msql_srv cannot build (from_ymd and and_hms panic)
\* A parameter is [kind, bytes, int] and the fields of its kind: the kind of
\* its ValueInner, the text of its bytes, its number; exp for a Double, whose
\* value is int * 10^exp; year, month, day for a Date; hour, minute and
\* second too for a Datetime.
ValueStr(param) ==
    CASE param.kind = "NULL" -> [st |-> "ok", text |-> NULL_TEXT]
      [] param.kind = "Bytes" -> [st |-> "ok", text |-> escaped(param.bytes)]
      [] param.kind \in {"Int", "UInt"} ->
            [st |-> "ok",
             text |-> IF param.int < 0 THEN <<"-">> \o Decimal(0 - param.int)
                      ELSE Decimal(param.int)]
      [] param.kind = "Double" ->
            [st |-> "ok", text |-> DoubleText(param.int, param.exp)]
      [] param.kind = "Date" ->
            IF ~IsDate(param.year, param.month, param.day) THEN Panic
            ELSE [st |-> "ok",
                  text |-> escaped(DateText(param.year, param.month, param.day))]
      [] param.kind = "Datetime" ->
            IF \/ ~IsDate(param.year, param.month, param.day)
               \/ param.hour > 23 \/ param.minute > 59 \/ param.second > 59
            THEN Panic
            ELSE [st |-> "ok",
                  text |-> escaped(DateText(param.year, param.month, param.day)
                                   \o <<" ">>
                                   \o TimeText(param.hour, param.minute, param.second))]
      [] OTHER -> Panic

\* str::replacen(pat, rep, 1)
ReplaceFirst(s, pat, rep) ==
    With({i \in 1..(Len(s) - Len(pat) + 1) : SubSeq(s, i, i + Len(pat) - 1) = pat},
         LAMBDA at :
         IF at = {} THEN s
         ELSE SubSeq(s, 1, MinOf(at) - 1) \o rep
              \o SubSeq(s, MinOf(at) + Len(pat), Len(s)))

\* the loop of on_execute (lines 180-201)
RECURSIVE Substituted(_, _)
Substituted(query, params) ==
    IF Len(params) = 0 THEN [st |-> "ok", text |-> query]
    ELSE Then(ValueStr(params[1]), LAMBDA value_str :
         Substituted(ReplaceFirst(query, <<"?">>, value_str.text), Tail(params)))

\* a removal of the element before the index
RemoveBefore(list, index) ==
    [i \in 1..(Len(list) - 1) |-> IF i < index THEN list[i] ELSE list[i + 1]]

\* Vec::remove, the index counted from 0
Remove(list, index) ==
    [i \in 1..(Len(list) - 1) |-> IF i <= index THEN list[i] ELSE list[i + 1]]

\* a close that leaves the list alone when the id is no index of it
on_close_ignoring(prepared_statements, statement_id) ==
    IF statement_id >= Len(prepared_statements)
    THEN [st |-> "ok", prepared_statements |-> prepared_statements]
    ELSE [st |-> "ok", prepared_statements |-> Remove(prepared_statements, statement_id)]

\* Backend::on_close: the list without the statement, or the panic of
\* Vec::remove on an index out of bounds
on_close(prepared_statements, statement_id) ==
    IF statement_id >= Len(prepared_statements) THEN Panic
    ELSE [st |-> "ok", prepared_statements |-> Remove(prepared_statements, statement_id)]

----------------------------------------------------------------------------
(* The connections at work.  A connection thread runs one query at a time: *)
(* QueryCache::query looks the text up in the map of the port and, on a    *)
(* miss, calls the inner stages and stores; connection threads interleave  *)
(* between the lookup and the store.                                       *)

SET_A == <<"s","e","t"," ","a">>
SET_B == <<"S","E","T"," ","b">>
SHOW_LOWER == <<"s","h","o","w"," ","w","a","r","n","i","n","g","s">>
SELECT_1 == <<"s","e","l","e","c","t"," ","1">>
SELECT_2 == <<"s","e","l","e","c","t"," ","2">>

\* the texts of the files of query_cache in config.yml (main.rs, tcp_listener)
queries_connection_cache == {SELECT_1}

\* an answer of the task API that carries its logs inline
Answer(task_logs) ==
    [send |-> "ok", task_logs |-> task_logs, fetch |-> "ok", body |-> <<>>, polls |-> <<>>]

ROWS_1 == <<"x","\n","1","\n">>
ROWS_2 == <<"x","\n","2","\n">>
ERROR_LOGS == <<"E","R","R","O","R"," ","1">>
CATALOG_HEADER ==
    <<"T","A","B","L","E","_","S","C","H","E","M","A","\t","T","A","B","L","E","_","N","A","M","E","\t","C","O","L","U","M","N","_","N","A","M","E","\t","D","A","T","A","_","T","Y","P","E","\t","I","S","_","N","U","L","L","A","B","L","E","\n">>
CATALOG_LOGS ==
    CATALOG_HEADER \o <<"s","\t","u","\t","c","\t","b","i","g","i","n","t","\t","N","O","\n">>
CATALOG_TWO_LOGS ==
    CATALOG_LOGS \o <<"t","\t","u","\t","c","\t","t","i","n","y","i","n","t","\t","N","O","\n">>
DATABASE_LOGS == <<"d","a","t","a","b","a","s","e","(",")","\n","s","\n">>

\* what the remote answers to the query of the client, to the catalog query
\* and to the schema query
Responses(logs) ==
    [query : {Answer(l) : l \in logs}, catalog : {Answer(CATALOG_LOGS)},
     database : {Answer(DATABASE_LOGS)}]

MaxQueries == 2
MaxSessionQueries == 4

\* the thread of the connection lives and waits for a query
Usable(c, budget) ==
    /\ stage = "serving"
    /\ pending[c] = <<>>
    /\ issued[c] < budget
    /\ backend[c].alive

\* the calls of the cache, of the accumulator and of the task API among the
\* calls logged
Calls(log) ==
    LET kept == SelectSeq(log, LAMBDA e : e.stage \in {"QueryCache", "QueryAccumulator",
                                                       "RunopsApi"})
    IN  [i \in 1..Len(kept) |-> [stage |-> kept[i].stage, text |-> kept[i].text]]

\* the set statements the accumulator received among the calls logged
SetsOf(log) ==
    LET kept == SelectSeq(log, LAMBDA e : /\ e.stage = "QueryAccumulator"
                                          /\ StartsWith(ToLower(e.text), SET_WORD))
    IN  [i \in 1..Len(kept) |-> kept[i].text]

\* a command of the client as the front-end receives it
Request(kind, query, id, params) ==
    [kind |-> kind, query |-> query, id |-> id, params |-> params]

\* the kind of the packet a connection was sent last
KindOf(packet) == IF packet = <<>> THEN "" ELSE packet.kind

\* what a command leaves in the Backend of its connection
Replied(c, request, packet, alive) ==
    [backend EXCEPT ![c] = [@ EXCEPT !.packet = packet,
                                     !.previous = KindOf(backend[c].packet),
                                     !.request = request,
                                     !.alive = alive]]

\* the query answered by the pipeline, and Backend::on_query writing the answer
Answered(c, query, res, log, request) ==
    /\ last' = [last EXCEPT ![c] = [query |-> query, res |-> res, log |-> log]]
    /\ sets' = [sets EXCEPT ![c] = @ \o SetsOf(log)]
    /\ \E sent \in {on_query(res)} :
           backend' = Replied(c, request, sent.packet, sent.alive)

\* a stack of stages shared by the connections
ExecutorOfAll(c) == "c1"

\* spawn_sql_processor: every connection accepted gets stages of its own
ExecutorOf(c) == c

\* one storage for every listener of the process
StorageOfProcess(c) == "p1"

\* tcp_listener: a storage for each listener, cloned to its connections
StorageOf(c) == PortOf(c)

\* tcp_listener: the texts of the files of the listener's query_cache
query_cache(p) == IF p = "p1" THEN queries_connection_cache ELSE {SELECT_1, SELECT_2}

\* a hit that sends the text down with the statements of the session all the
\* same, and returns the entry
Hit_forwarding(c, query, request) ==
    /\ InMemoryQueryStorage_get(storage[StorageOf(c)], query) # <<>>
    /\ \E res \in {OkSome(CachedResult(
                       InMemoryQueryStorage_get(storage[StorageOf(c)], query)[1]))} :
           Answered(c, query, res,
                    <<Entry("QueryCache", query, res),
                      Entry("QueryAccumulator", ReplayText(executor[c].acc, query), res)>>,
                    request)
    /\ issued' = [issued EXCEPT ![c] = @ + 1]
    /\ UNCHANGED <<stage, arg, out, with_type_discovery, listener, storage, stores, executor, pending>>

\* QueryCache::query, the arm of a stored entry (line 77)
Hit(c, query, request) ==
    /\ InMemoryQueryStorage_get(storage[StorageOf(c)], query) # <<>>
    /\ \E res \in {OkSome(CachedResult(
                       InMemoryQueryStorage_get(storage[StorageOf(c)], query)[1]))} :
           Answered(c, query, res, <<Entry("QueryCache", query, res)>>, request)
    /\ issued' = [issued EXCEPT ![c] = @ + 1]
    /\ UNCHANGED <<stage, arg, out, with_type_discovery, listener, storage, stores, executor, pending>>

\* QueryCache::query, the lookup that finds nothing (lines 59-60)
Miss(c, query, request) ==
    /\ InMemoryQueryStorage_get(storage[StorageOf(c)], query) = <<>>
    /\ pending' = [pending EXCEPT ![c] = <<query>>]
    /\ issued' = [issued EXCEPT ![c] = @ + 1]
    /\ backend' = [backend EXCEPT ![c] = [@ EXCEPT !.request = request]]
    /\ UNCHANGED <<stage, arg, out, with_type_discovery, listener, storage, stores, executor, last,
                   sets>>

\* Backend::on_query of a text the cache holds
CacheHit(c, query, budget) == Usable(c, budget) /\ Hit(c, query, Request("query", query, 0, <<>>))

\* Backend::on_query of a text the cache does not hold, up to the lookup
CacheMiss(c, query, budget) == Usable(c, budget) /\ Miss(c, query, Request("query", query, 0, <<>>))

\* QueryCache::query after the miss (lines 60-76): the inner stages run, the
\* result of an allow-listed text is materialized and stored, and the
\* front-end writes the answer
Delegate(c, resps) ==
    /\ stage = "serving"
    /\ pending[c] # <<>>
    /\ \E query \in {pending[c][1]} :
       \E inner \in {QuerySanitizer_query(with_type_discovery[PortOf(c)],
                                          executor[ExecutorOf(c)], query, resps)} :
       \E done \in {QueryCache_miss(query_cache(PortOf(c)), query, inner.res)} :
           /\ executor' = [executor EXCEPT ![ExecutorOf(c)] = inner.cs]
           /\ storage' = [storage EXCEPT ![StorageOf(c)] = StorageAfter(@, query, done)]
           /\ stores' = IF done.store = <<>> THEN stores
                        ELSE [stores EXCEPT ![StorageOf(c)] =
                                 Append(@, [query |-> query, entry |-> done.store[1],
                                            by |-> c])]
           /\ Answered(c, query, done.res,
                       <<Entry("QueryCache", query, done.res)>> \o inner.log,
                       backend[c].request)
    /\ pending' = [pending EXCEPT ![c] = <<>>]
    /\ UNCHANGED <<stage, arg, out, with_type_discovery, listener, issued>>

\* Backend::on_prepare
OnPrepare(c, query, budget) ==
    /\ Usable(c, budget)
    /\ \E done \in {on_prepare(backend[c].prepared_statements, query)} :
           backend' = [Replied(c, Request("prepare", query, 0, <<>>), done.packet, TRUE)
                           EXCEPT ![c].prepared_statements = done.prepared_statements]
    /\ issued' = [issued EXCEPT ![c] = @ + 1]
    /\ UNCHANGED <<stage, arg, out, with_type_discovery, listener, storage, stores, executor, pending,
                   last, sets>>

STATEMENT_NOT_FOUND ==
    <<"S","t","a","t","e","m","e","n","t"," ","n","o","t"," ","f","o","u","n","d">>

\* a lookup that falls back on the statement prepared last
get_or_last(prepared_statements, statement_id) ==
    IF statement_id < Len(prepared_statements)
    THEN <<prepared_statements[statement_id + 1]>>
    ELSE IF Len(prepared_statements) > 0
    THEN <<prepared_statements[Len(prepared_statements)]>>
    ELSE <<>>

\* prepared_statements.get(statement_id as usize) (lines 174-177): the
\* statement at the index, counted from 0, or None
get(prepared_statements, statement_id) ==
    IF statement_id < Len(prepared_statements)
    THEN <<prepared_statements[statement_id + 1]>>
    ELSE <<>>

\* Backend::on_execute of a statement of the list: the text substituted goes
\* to on_query
OnExecute(c, statement_id, params, budget) ==
    /\ Usable(c, budget)
    /\ get(backend[c].prepared_statements, statement_id) # <<>>
    /\ \E query \in {Substituted(get(backend[c].prepared_statements, statement_id)[1],
                                 params)} :
           IF query.st = "ok"
           THEN \/ Hit(c, query.text, Request("execute", <<>>, statement_id, params))
                \/ Miss(c, query.text, Request("execute", <<>>, statement_id, params))
           ELSE /\ backend' = Replied(c, Request("execute", <<>>, statement_id, params),
                                      NothingWritten, FALSE)
                /\ issued' = [issued EXCEPT ![c] = @ + 1]
                /\ UNCHANGED <<stage, arg, out, with_type_discovery, listener, storage, stores,
                               executor, pending, last, sets>>

\* Backend::on_execute of an id that is not in the list (lines 204-207)
OnExecuteUnknown(c, statement_id, params, budget) ==
    /\ Usable(c, budget)
    /\ get(backend[c].prepared_statements, statement_id) = <<>>
    /\ backend' = Replied(c, Request("execute", <<>>, statement_id, params),
                          Packet("Error", "ER_STMT_HAS_NO_OPEN_CURSOR",
                                 STATEMENT_NOT_FOUND, <<>>, <<>>),
                          TRUE)
    /\ issued' = [issued EXCEPT ![c] = @ + 1]
    /\ UNCHANGED <<stage, arg, out, with_type_discovery, listener, storage, stores, executor, pending,
                   last, sets>>

\* Backend::on_close: no packet, and a thread that dies on an id out of bounds
OnClose(c, statement_id, budget) ==
    /\ Usable(c, budget)
    /\ \E done \in {on_close(backend[c].prepared_statements, statement_id)} :
           backend' = [Replied(c, Request("close", <<>>, statement_id, <<>>), NothingWritten,
                               done.st = "ok")
                           EXCEPT ![c].prepared_statements =
                               IF done.st = "ok" THEN done.prepared_statements ELSE @]
    /\ issued' = [issued EXCEPT ![c] = @ + 1]
    /\ UNCHANGED <<stage, arg, out, with_type_discovery, listener, storage, stores, executor, pending,
                   last, sets>>

\* one port, with or without type discovery, and no connection served yet
\* DataTypeInfo::load(&mut runops_api): the catalog query sent to the task
\* API with no stage between, and its rows materialized as (schema, table,
\* column, type); an error, or an answer that holds no result, is no catalog
DataTypeInfo_load(resp) ==
    With(RunopsApi_query(<<>>, CATALOG_SQL, resp), LAMBDA call :
         IF call.res.st # "ok" THEN [st |-> call.res.st, log |-> call.log]
         ELSE IF call.res.value = <<>> THEN [st |-> "panic", log |-> call.log]
         ELSE With(TypeMapOf(GetData(call.res.value[1])), LAMBDA loaded :
              IF loaded.st # "ok" THEN [st |-> loaded.st, log |-> call.log]
              ELSE [st |-> "ok", type_map |-> loaded.type_map, log |-> call.log]))

\* construct_query_executor_with_data_type at the first connection the
\* listener accepts (lines 106-109): the listener keeps the catalog loaded,
\* and expect panics in the thread of the listener when the load fails; a
\* listener without type discovery loads nothing (lines 85-96)
ListenerAfterAccept(typed, resp) ==
    IF ~typed THEN NewListener
    ELSE With(DataTypeInfo_load(resp), LAMBDA load :
         IF load.st = "ok"
         THEN [data_type_info |-> <<load.type_map>>, alive |-> TRUE, log |-> load.log]
         ELSE [data_type_info |-> <<>>, alive |-> FALSE, log |-> load.log])

\* what the remote answers to the catalog query of the listeners: the columns
\* of two schemas, no column at all, or an SQL error
LoadResponses == {Answer(CATALOG_TWO_LOGS), Answer(CATALOG_HEADER), Answer(ERROR_LOGS)}

\* tcp_listener and spawn_sql_processor, the connections accepted: on a port
\* with type discovery the listener loaded the catalog once, at its first
\* connection, and every connection of the port holds a clone of it
NewPipeline ==
    \E resp \in LoadResponses :
        Accepted([p \in Ports |-> ListenerAfterAccept(with_type_discovery[p], resp)])

Init ==
    /\ stage = "serving"
    /\ arg = <<>>
    /\ out = <<>>
    /\ with_type_discovery \in {[p \in Ports |-> b] : b \in BOOLEAN}
    /\ NewPipeline

\* two connections of one port
CacheConnections == {"c1", "c2"}
CacheQueries == {SELECT_1, SELECT_2}
CacheResponses == Responses({ROWS_1, ROWS_2, EMPTY_LOGS})

Next ==
    \E c \in CacheConnections :
        \/ \E query \in CacheQueries : CacheHit(c, query, MaxQueries)
        \/ \E query \in CacheQueries : CacheMiss(c, query, MaxQueries)
        \/ \E resps \in CacheResponses : Delegate(c, resps)

Spec == Init /\ [][Next]_vars

\* one connection and the statements of a session
SessionQueries == {SET_A, SET_B, SHOW_WARNINGS, SHOW_LOWER, SELECT_1, SELECT_2}
SessionResponses == Responses({ROWS_1, EMPTY_LOGS, ERROR_LOGS})

NextSession ==
    \/ \E query \in SessionQueries : CacheHit("c1", query, MaxSessionQueries)
    \/ \E query \in SessionQueries : CacheMiss("c1", query, MaxSessionQueries)
    \/ \E resps \in SessionResponses : Delegate("c1", resps)

SpecSession == Init /\ [][NextSession]_vars

----------------------------------------------------------------------------
(* The remote failing: one connection, its queries and what the task API   *)
(* answers, to them and to the catalog query.                              *)

\* the POST that fails, or its JSON
NoAnswer == [send |-> "err", task_logs |-> <<>>, fetch |-> "ok", body |-> <<>>,
             polls |-> <<>>]

\* a task that is still running, and whose logs are then refused
RefusedLater == [send |-> "ok", task_logs |-> TASK_RUNNING, fetch |-> "ok",
                 body |-> <<>>, polls |-> <<"400", "500">>]

MaxErrorQueries == 3

\* if() called with one argument
SELECT_IF == <<"s","e","l","e","c","t"," ","i","f","(","c",")">>

ErrorQueries == {SELECT_1, SELECT_2, SELECT_IF}
ErrorResponses ==
    [query : {Answer(ROWS_1), Answer(ERROR_LOGS), NoAnswer, RefusedLater},
     catalog : {Answer(CATALOG_LOGS), Answer(EMPTY_LOGS), Answer(ERROR_LOGS)},
     database : {Answer(DATABASE_LOGS)}]

NextErrors ==
    \/ \E query \in ErrorQueries : CacheHit("c1", query, MaxErrorQueries)
    \/ \E query \in ErrorQueries : CacheMiss("c1", query, MaxErrorQueries)
    \/ \E resps \in ErrorResponses : Delegate("c1", resps)

SpecErrors == Init /\ [][NextErrors]_vars

----------------------------------------------------------------------------
(* Prepared statements: one connection that prepares, executes and closes. *)

SELECT_PARAM == <<"s","e","l","e","c","t"," ","?">>
SELECT_PARAMS == <<"s","e","l","e","c","t"," ","?",",","?">>

MaxCommands == 3
MaxParams == 2

PreparedQueries == {SELECT_1, SELECT_PARAM, SELECT_PARAMS}
StatementIds == 0..2
ParamValues == {[kind |-> "Bytes", bytes |-> <<"?">>, int |-> 0],
                [kind |-> "Int", bytes |-> <<>>, int |-> 7],
                [kind |-> "NULL", bytes |-> <<>>, int |-> 0],
                [kind |-> "Double", bytes |-> <<>>, int |-> 15, exp |-> -1],
                [kind |-> "Date", bytes |-> <<>>, int |-> 0,
                 year |-> 2020, month |-> 2, day |-> 29]}
PreparedResponses == Responses({ROWS_1})

NextPrepared ==
    \/ \E query \in PreparedQueries : OnPrepare("c1", query, MaxCommands)
    \/ \E id \in StatementIds, params \in SeqsUpTo(ParamValues, MaxParams) :
           OnExecute("c1", id, params, MaxCommands)
    \/ \E id \in StatementIds, params \in SeqsUpTo(ParamValues, MaxParams) :
           OnExecuteUnknown("c1", id, params, MaxCommands)
    \/ \E id \in StatementIds : OnClose("c1", id, MaxCommands)
    \/ \E resps \in PreparedResponses : Delegate("c1", resps)

SpecPrepared == Init /\ [][NextPrepared]_vars

----------------------------------------------------------------------------
(* Two connections of one port and their session statements *)

MaxIsolationQueries == 2

IsolationConnections == {"c1", "c2"}
IsolationQueries == {SET_A, SET_B, SELECT_2}
IsolationResponses == Responses({ROWS_1})

NextIsolation ==
    \E c \in IsolationConnections :
        \/ \E query \in IsolationQueries : CacheMiss(c, query, MaxIsolationQueries)
        \/ \E resps \in IsolationResponses : Delegate(c, resps)

SpecIsolation == Init /\ [][NextIsolation]_vars

----------------------------------------------------------------------------
(* The rows the front-ends write, for every list of rows of a result *)

ONE == <<"1">>
ONE_ROW == <<"(","1"," ","r","o","w",")">>
TWO_ROWS == <<"(","2"," ","r","o","w","s",")">>

MaxRows == 3

WrittenRows == { <<StringValue(ONE)>>, <<StringValue(ONE_ROW)>>,
                 <<StringValue(TWO_ROWS)>>, <<Null>>,
                 <<StringValue(ONE_ROW), StringValue(ONE)>> }

InitRows ==
    /\ stage = "input"
    /\ arg \in SeqsUpTo(WrittenRows, MaxRows)
    /\ out = <<>>
    /\ NoPipeline

\* a result of the pipeline with these rows, under a header of one column
ResultOf(rows) ==
    OkSome(CachedResult([columns |-> <<[table |-> "none", column |-> <<"x">>,
                                        coltype |-> TYPE_STRING]>>,
                         rows |-> rows]))

WriteRows ==
    /\ stage = "input"
    /\ stage' = "done"
    /\ out' = [mysql |-> do_query(ResultOf(arg)), postgres |-> do_execute(ResultOf(arg))]
    /\ UNCHANGED <<arg, pipeline>>

NextRows == WriteRows

SpecRows == InitRows /\ [][NextRows]_vars

----------------------------------------------------------------------------
(* One connection and selects over a table, over a derived table and over  *)
(* the name a derived table was given.                                     *)

SELECT_TABLE == <<"s","e","l","e","c","t"," ","c"," ","f","r","o","m"," ","u">>
SELECT_DERIVED ==
    <<"s","e","l","e","c","t"," ","c"," ","f","r","o","m"," ","("," ","s","e","l","e",
      "c","t"," ","c"," ","f","r","o","m"," ","s",".","u"," ",")"," ","d">>
SELECT_ALIAS == <<"s","e","l","e","c","t"," ","c"," ","f","r","o","m"," ","d",".","d">>

MaxDerivedQueries == 3

DerivedQueries == {SELECT_TABLE, SELECT_DERIVED, SELECT_ALIAS, SELECT_1}
DerivedResponses == Responses({ROWS_1, EMPTY_LOGS})

NextDerived ==
    \/ \E query \in DerivedQueries : CacheHit("c1", query, MaxDerivedQueries)
    \/ \E query \in DerivedQueries : CacheMiss("c1", query, MaxDerivedQueries)
    \/ \E resps \in DerivedResponses : Delegate("c1", resps)

SpecDerived == Init /\ [][NextDerived]_vars

----------------------------------------------------------------------------
(* process_expr of if(cond, then, else), for every pair of arguments and   *)
(* every list of columns the tables of the select give.                    *)

MaxIfColumns == 2

\* the entries of alias_to_column_and_type
IfColumns == {[alias |-> <<"t">>, column |-> <<"a">>, type |-> "MYSQL_TYPE_LONGLONG"],
              [alias |-> <<"t">>, column |-> <<"b">>, type |-> "MYSQL_TYPE_TINY"]}

\* the expressions of the arguments: columns, a column no table has, a
\* qualified column and a literal
IfExprs == {[kind |-> "Identifier", value |-> <<"a">>],
            [kind |-> "Identifier", value |-> <<"b">>],
            [kind |-> "Identifier", value |-> <<"n">>],
            [kind |-> "CompoundIdentifier", idents |-> << <<"t">>, <<"a">> >>],
            [kind |-> "Other"]}

IfArguments == {[kind |-> "Unnamed", expr |-> e] : e \in IfExprs}
                   \cup {[kind |-> "UnnamedWildcard", expr |-> [kind |-> "Other"]]}

\* if(cond, then, else)
IfCall(cond, then, else) ==
    [kind |-> "Function", name |-> IF_NAME, args |-> <<cond, then, else>>]

InitIf ==
    /\ stage = "input"
    /\ arg \in [cond : {[kind |-> "Unnamed", expr |-> [kind |-> "Other"]]},
                then : IfArguments, else : IfArguments,
                columns : SeqsUpTo(IfColumns, MaxIfColumns)]
    /\ out = <<>>
    /\ NoPipeline

InferIf ==
    /\ stage = "input"
    /\ stage' = "done"
    /\ out' = process_expr(IfCall(arg.cond, arg.then, arg.else), arg.columns)
    /\ UNCHANGED <<arg, pipeline>>

NextIf == InferIf

SpecIf == InitIf /\ [][NextIf]_vars

----------------------------------------------------------------------------
(* The coercion of one value of a row under the type the catalog gives its *)
(* column: the tag of the catalog goes through the match of load_internals, *)
(* the value through the match of get_data.                                *)

\* DATA_TYPE tags of the catalog: the integer types, textual types and a tag
\* the match does not know
CoercedTags == { <<"b","i","g","i","n","t">>, <<"i","n","t">>,
                 <<"m","e","d","i","u","m","i","n","t">>,
                 <<"s","m","a","l","l","i","n","t">>, <<"y","e","a","r">>,
                 <<"t","i","n","y","i","n","t">>, <<"v","a","r","c","h","a","r">>,
                 <<"t","e","x","t">>, <<"j","s","o","n">> }

\* the texts of the values: numbers at both sides of the bounds of the
\* integer types, and a text that is no number
CoercedTexts ==
    { <<"5">>, <<"-","5">>, <<"1","2","7">>, <<"1","2","8">>, <<"-","1","2","8">>,
      <<"-","1","2","9">>, <<"3","2","7","6","7">>, <<"3","2","7","6","8">>,
      <<"-","3","2","7","6","9">>, <<"a">>, <<>>, I32_MAX, I32_MIN, I64_MAX, I64_MIN }

CoercedValues == {Null} \cup {StringValue(v) : v \in CoercedTexts}

InitCoerce ==
    /\ stage = "input"
    /\ arg \in [tag : CoercedTags, value : CoercedValues]
    /\ out = <<>>
    /\ NoPipeline

Coerce ==
    /\ stage = "input"
    /\ stage' = "done"
    /\ out' = CoerceValue(arg.value, MapDataType(arg.tag))
    /\ UNCHANGED <<arg, pipeline>>

NextCoerce == Coerce

SpecCoerce == InitCoerce /\ [][NextCoerce]_vars

----------------------------------------------------------------------------
(* One connection that changes its schema and selects from a table that    *)
(* two schemas of the catalog hold.                                        *)

USE_T == <<"u","s","e"," ","t">>
USE_S == <<"U","S","E"," "," ","s"," ","x">>

MaxUseQueries == 3

UseQueries == {USE_T, USE_S, SELECT_TABLE, SELECT_1}
UseResponses ==
    [query : {Answer(ROWS_1), Answer(EMPTY_LOGS), Answer(ERROR_LOGS), NoAnswer},
     catalog : {Answer(CATALOG_TWO_LOGS)},
     database : {Answer(DATABASE_LOGS)}]

NextUse ==
    \/ \E query \in UseQueries : CacheHit("c1", query, MaxUseQueries)
    \/ \E query \in UseQueries : CacheMiss("c1", query, MaxUseQueries)
    \/ \E resps \in UseResponses : Delegate("c1", resps)

SpecUse == Init /\ [][NextUse]_vars

----------------------------------------------------------------------------
(* Two connections of one port that ask for the allow-listed text, the     *)
(* remote answering with one header or another.                            *)

ROWS_Y == <<"y","\n","3","\n">>

MaxSnapshotQueries == 3

SnapshotConnections == {"c1", "c2"}
SnapshotQueries == {SELECT_1}
SnapshotResponses == Responses({ROWS_1, ROWS_Y})

NextSnapshot ==
    \E c \in SnapshotConnections :
        \/ \E query \in SnapshotQueries : CacheHit(c, query, MaxSnapshotQueries)
        \/ \E query \in SnapshotQueries : CacheMiss(c, query, MaxSnapshotQueries)
        \/ \E resps \in SnapshotResponses : Delegate(c, resps)

SpecSnapshot == Init /\ [][NextSnapshot]_vars

----------------------------------------------------------------------------
(* The miss arm of QueryCache::query over any inner stage: what the inner   *)
(* stage returned is the input, a result being given by the header and the *)
(* rows its get_data yields.                                               *)

MaxMissRows == 2

\* the texts on the allow-list of the cache under check
MissAllowList == {SELECT_1, SELECT_2}

MissQueries == {SELECT_1, SHOW_LOWER}

COLUMN_X == [table |-> "none", column |-> <<"x">>, coltype |-> TYPE_STRING]

\* what the row iterator of a result yields for one row
RowOutcomes == {[st |-> "ok", row |-> <<StringValue(ONE)>>], Err, Panic}

\* what the inner stage returns
InnerOutcomes ==
    {OkNone, Failure("Transport", <<>>), Failure("SqlError", ERROR_LOGS)}
    \cup {OkSome([kind |-> "Data", columns |-> columns, rows |-> rows]) :
              columns \in {[st |-> "ok", value |-> <<COLUMN_X>>], Err},
              rows \in SeqsUpTo(RowOutcomes, MaxMissRows)}

\* the map before the call: empty, or with the entry of another text
MissMaps ==
    {<<>>, InMemoryQueryStorage_store(<<>>, SELECT_2,
                                      [columns |-> <<COLUMN_X>>, rows |-> <<>>])}

InitMiss ==
    /\ stage = "input"
    /\ arg \in [query : MissQueries, inner : InnerOutcomes, map : MissMaps]
    /\ out = <<>>
    /\ with_type_discovery = [p \in Ports |-> FALSE]
    /\ listener = [p \in Ports |-> NewListener]
    /\ storage = [p \in Ports |-> IF p = "p1" THEN arg.map ELSE <<>>]
    /\ stores = [p \in Ports |-> <<>>]
    /\ executor = [c \in Connections |->
                      [acc |-> <<>>, data_type_info |-> <<>>, default_schema |-> <<>>]]
    /\ pending = [c \in Connections |-> <<>>]
    /\ issued = [c \in Connections |-> 0]
    /\ last = [c \in Connections |-> <<>>]
    /\ sets = [c \in Connections |-> <<>>]
    /\ backend = [c \in Connections |->
                     [prepared_statements |-> <<>>, packet |-> <<>>, previous |-> "",
                      request |-> <<>>, alive |-> TRUE]]

\* QueryCache::query of a text the map does not hold (lines 60-76)
MissInner ==
    /\ stage = "input"
    /\ stage' = "done"
    /\ \E done \in {QueryCache_miss(MissAllowList, arg.query, arg.inner)} :
           /\ out' = done.res
           /\ storage' = [storage EXCEPT !["p1"] = StorageAfter(@, arg.query, done)]
    /\ UNCHANGED <<arg, with_type_discovery, listener, stores, executor, pending, issued, last,
                   sets, backend>>

NextMiss == MissInner

SpecMiss == InitMiss /\ [][NextMiss]_vars

----------------------------------------------------------------------------
(* One query of RunopsApi, step by step: the task is submitted, and a task *)
(* that is still running is polled until the remote answers something else *)
(* than 400.  The remote is the response of the harness: the polls it      *)
(* lists are answered in order, and every poll after them is answered 400. *)

MaxPolls == 3

TaskIds == {1, 2}

PollStatuses == {"400", "200", "500", "err"}

\* texts on both sides of every test of the dispatch
TaskLogs ==
    { HTTPS, HTTPS \o <<"a">>, <<" ">> \o HTTPS, EMPTY_LOGS, EMPTY_LOGS \o <<" ">>,
      ERROR_WORD, ERROR_LOGS, <<"e","r","r","o","r">>, <<" ">> \o ERROR_WORD,
      TASK_RUNNING, TASK_RUNNING \o <<" ","x">>,
      SubSeq(TASK_RUNNING, 1, Len(TASK_RUNNING) - 1), ROWS_1, <<>> }

TaskResponses ==
    [send : {"ok", "err"}, task_logs : TaskLogs, fetch : {"ok", "err"}, body : {ROWS_2},
     polls : SeqsUpTo(PollStatuses, MaxPolls)]

InitTask ==
    /\ stage = "input"
    /\ arg \in [resp : TaskResponses, id : TaskIds]
    /\ out = <<>>
    /\ NoPipeline

\* the status the remote answers to the poll after `polled` polls
StatusOf(polls, polled) ==
    IF Len(polled) < Len(polls) THEN polls[Len(polled) + 1] ELSE "400"

\* the ids polled, counted up to MaxPolls + 1
Polled(polled, id) == IF Len(polled) <= MaxPolls THEN Append(polled, id) ELSE polled

\* lines 68-91 and 111: the POST and the dispatch on task_logs
Submit ==
    /\ stage = "input"
    /\ \E first \in {RunopsApi_result([arg.resp EXCEPT !.polls = <<>>])} :
           /\ out' = [first |-> first, res |-> first, posts |-> 1, polled |-> <<>>]
           /\ stage' = IF first.st = "polling" THEN "polling" ELSE "done"
    /\ UNCHANGED <<arg, pipeline>>

\* lines 92-109: one turn of the loop
Poll ==
    /\ stage = "polling"
    /\ \E res \in {PollStep(StatusOf(arg.resp.polls, out.polled), arg.resp)} :
           /\ out' = [out EXCEPT !.res = res, !.polled = Polled(@, arg.id)]
           /\ stage' = IF res.st = "polling" THEN "polling" ELSE "done"
    /\ UNCHANGED <<arg, pipeline>>

NextTask == Submit \/ Poll

SpecTask == InitTask /\ [][NextTask]_vars

\* the thread of the connection runs the loop as long as it is in it
SpecTaskLive == SpecTask /\ WF_vars(Poll)

----------------------------------------------------------------------------
(* Two listeners: a connection of each port, and the texts of their        *)
(* allow-lists, one of which only the second port caches.                  *)

MaxPortQueries == 3

PortConnections == {"c1", "c3"}
PortQueries == {SELECT_1, SELECT_2}
PortResponses == Responses({ROWS_1, ROWS_Y})

NextPorts ==
    \/ \E c \in PortConnections, query \in PortQueries : CacheHit(c, query, MaxPortQueries)
    \/ \E c \in PortConnections, query \in PortQueries : CacheMiss(c, query, MaxPortQueries)
    \/ \E c \in PortConnections, resps \in PortResponses : Delegate(c, resps)

SpecPorts == Init /\ [][NextPorts]_vars

----------------------------------------------------------------------------
(* The PostgreSQL front-end (postgres_query_executor_backend.rs): a        *)
(* connection that reads the parameters of the server, and a statement     *)
(* that the client prepares, binds, describes and executes, over the stack *)
(* of stages that main.rs builds.  The inference of DataTypeInfo is no     *)
(* code of src, what it returns is an input.                               *)

AT_TIME_ZONE == <<"a","t"," ","t","i","m","e"," ","z","o","n","e"," ","'","U","T","C","'">>
DISTINCT == <<"d","i","s","t","i","n","c","t">>
FROM_PG_USER == <<"f","r","o","m"," ","p","g","_","u","s","e","r">>
FROM_PG_CATALOG_PG_USER == <<"f","r","o","m"," ","p","g","_","c","a","t","a","l","o","g",".","p","g","_","u","s","e","r">>
ORDER_BY_INHSEQNO == <<"o","r","d","e","r"," ","b","y"," ","i","n","h","s","e","q","n","o",")">>
ORDER_BY_INHRELID == <<"o","r","d","e","r"," ","b","y"," ","i","n","h","r","e","l","i","d",")">>

\* lines 76-81
DescribedText(portal) ==
    Replace(Replace(Replace(Replace(Replace(portal, AT_TIME_ZONE, <<>>), DISTINCT, <<>>),
                            FROM_PG_USER, FROM_PG_CATALOG_PG_USER),
                    ORDER_BY_INHSEQNO, <<")">>),
            ORDER_BY_INHRELID, <<")">>)

\* the type of the wire for the type name the inference found, none (<<>>)
\* or one (<<name>>), the name in lower case (lines 97-113)
PostgresType(column_type) ==
    With([i \in 1..Len(column_type) |-> ToLower(column_type[i])], LAMBDA ty :
    CASE ty = <<>> -> "TEXT"
      [] ty = <<<<"t","e","x","t">>>> -> "TEXT"
      [] ty = <<<<"n","a","m","e">>>> -> "TEXT"
      [] ty = <<<<"b","i","g","i","n","t">>>> -> "INT8"
      [] ty = <<<<"u","u","i","d">>>> -> "UUID"
      [] ty = <<<<"o","i","d">>>> -> "OID"
      [] ty = <<<<"c","h","a","r","a","c","t","e","r"," ","v","a","r","y","i","n","g">>>> -> "VARCHAR"
      [] ty = <<<<"b","y","t","e","a">>>> -> "BYTEA"
      [] ty = <<<<"t","i","m","e","s","t","a","m","p"," ","w","i","t","h"," ","t","i","m","e"," ","z","o","n","e">>>> -> "TIMESTAMPTZ"
      [] ty = <<<<"b","o","o","l","e","a","n">>>> -> "BOOL"
      [] ty = <<<<"i","n","t","e","g","e","r">>>> -> "INT4"
      [] ty = <<<<"a","r","r","a","y">>>> -> "ANYARRAY"
      [] ty = <<<<"d","a","t","e">>>> -> "DATE"
      [] OTHER -> "TEXT")

\* PostgresBackend::describe_by_parsing_query: the failure of the parse or of
\* the inference, no column, or the columns inferred, each with its type.
\* `inference` is what DataTypeInfo::get_columns_types_from_ast returns for
\* the text parsed: Err, or [st |-> "ok", cols |-> the pairs [name, type]].
describe_by_parsing_query(portal, inference) ==
    IF parse_sql(DescribedText(portal)).st # "ok" THEN Err
    ELSE IF inference.st # "ok" THEN Err
    ELSE IF Len(inference.cols) = 0 THEN OkNone
    ELSE OkSome([i \in 1..Len(inference.cols) |->
                    [name |-> inference.cols[i].name,
                     column_type |-> PostgresType(inference.cols[i].type)]])

\* QueryCache::query as one call: the entry of the map, or the inner stages
\* and the store
QueryCache_query(map, queries_to_cache, typed, cs, query, resps) ==
    IF InMemoryQueryStorage_get(map, query) # <<>>
    THEN With(OkSome(CachedResult(InMemoryQueryStorage_get(map, query)[1])), LAMBDA res :
         [cs |-> cs, map |-> map, res |-> res, log |-> <<Entry("QueryCache", query, res)>>])
    ELSE With(QuerySanitizer_query(typed, cs, query, resps), LAMBDA inner :
         With(QueryCache_miss(queries_to_cache, query, inner.res), LAMBDA done :
         [cs |-> inner.cs, map |-> StorageAfter(map, query, done), res |-> done.res,
          log |-> <<Entry("QueryCache", query, done.res)>> \o inner.log]))

\* the columns of the fallback of describe (lines 172-184), or the panic of
\* expect and of unwrap
DescribedByQuery(res) ==
    IF res.st # "ok" THEN Panic
    ELSE IF res.value = <<>> THEN OkNone
    ELSE With(GetData(res.value[1]), LAMBDA data :
         IF data.st # "ok" THEN Panic
         ELSE IF data.columns.st # "ok" THEN Panic
         ELSE OkSome([i \in 1..Len(data.columns.value) |->
                         TextColumn(data.columns.value[i].column)]))

\* PostgresBackend::describe
describe(be, portal, inference, queries_to_cache, typed, resps) ==
    With(describe_by_parsing_query(portal, inference), LAMBDA parsed :
    IF parsed.st = "ok" THEN [be EXCEPT !.columns = parsed]
    ELSE With(QueryCache_query(be.map, queries_to_cache, typed, be.cs, portal, resps),
              LAMBDA call :
         [be EXCEPT !.cs = call.cs, !.map = call.map, !.log = @ \o call.log,
                    !.columns = DescribedByQuery(call.res),
                    !.alive = DescribedByQuery(call.res).st = "ok"]))

\* PostgresBackend::do_execute with the columns of describe, `res` being what
\* the pipeline returned
do_execute_described(res, describe_columns) ==
    IF res.st # "ok" \/ res.value = <<>> \/ describe_columns = <<>> THEN do_execute(res)
    ELSE With(GetData(res.value[1]), LAMBDA data :
         IF data.st # "ok" THEN [st |-> "panic", packet |-> NothingWritten]
         ELSE IF data.columns.st # "ok" THEN [st |-> "err", packet |-> NothingWritten]
         ELSE WriteRowsButSummary(describe_columns[1], data.rows))

\* PostgresBackend::execute: the unwrap of what do_execute returned
execute(be, portal, queries_to_cache, typed, resps) ==
    With(QueryCache_query(be.map, queries_to_cache, typed, be.cs, portal, resps),
         LAMBDA call :
    With(do_execute_described(call.res, be.columns.value), LAMBDA done :
    [be EXCEPT !.cs = call.cs, !.map = call.map, !.log = @ \o call.log,
               !.packet = done.packet, !.alive = done.st = "ok"]))

SELECT_BROKEN == <<"s","e","l","e","c","t"," ",")">>
SELECT_DISTINCT == <<"s","e","l","e","c","t"," ","d","i","s","t","i","n","c","t"," ","1">>

DescribedResponses == Responses({ROWS_1, EMPTY_LOGS, ERROR_LOGS})
BIGINT_UPPER == <<"B","I","G","I","N","T">>
JSON_NAME == <<"j","s","o","n">>

\* what the inference may return for a portal that parses
Inferences ==
    {Err, [st |-> "ok", cols |-> <<>>],
     [st |-> "ok", cols |-> <<[name |-> <<"c">>, type |-> <<>>]>>],
     [st |-> "ok", cols |-> <<[name |-> <<"c">>, type |-> <<BIGINT_UPPER>>]>>],
     [st |-> "ok", cols |-> <<[name |-> <<"a">>, type |-> <<JSON_NAME>>],
                              [name |-> <<"b">>, type |-> <<<<"b","o","o","l","e","a","n">>>>]>>]}

\* the catalogs a listener with type discovery hands to its connections: the
\* one loaded from an answer with rows, or from an answer with none
DescribedCatalogs ==
    {data_type_info_clone(ListenerAfterAccept(TRUE, resp)) :
         resp \in {Answer(CATALOG_TWO_LOGS), Answer(CATALOG_HEADER)}}

\* the Backend of a connection accepted, its executor holding the clone of
\* the catalog of its listener, and no statement prepared.  `parameters`,
\* `portal`, `columns` and `packet` are what default_parameters, bind,
\* describe and execute returned or wrote last.
NewPostgresBackend(catalog) ==
    [cs |-> [acc |-> <<>>, data_type_info |-> catalog, default_schema |-> <<>>],
     map |-> <<>>, queries |-> <<>>, parameters |-> <<>>, portal |-> <<>>,
     columns |-> OkNone, log |-> <<>>, packet |-> NothingWritten, alive |-> TRUE]

\* PostgresShim::prepare: HashMap::insert of the text under the name
prepare(be, query_name, query) ==
    [be EXCEPT !.queries = [k \in DOMAIN @ \cup {query_name} |->
                               IF k = query_name THEN query ELSE @[k]]]

\* the characters U+0020..U+007E in order, without U+0060
Printable ==
    <<" ","!","\"","#","$","%","&","'","(",")","*","+",",","-",".","/",
      "0","1","2","3","4","5","6","7","8","9",":",";","<","=",">","?",
      "@","A","B","C","D","E","F","G","H","I","J","K","L","M","N","O",
      "P","Q","R","S","T","U","V","W","X","Y","Z","[","\\","]","^","_",
      "a","b","c","d","e","f","g","h","i","j","k","l","m","n","o","p",
      "q","r","s","t","u","v","w","x","y","z","{","|","}","~">>

\* the character of a code point: the white space of ASCII, the printable
\* characters and those of U+0080..U+00FF
CharOf(point) ==
    CASE point = 9 -> "\t"
      [] point = 10 -> "\n"
      [] point = 11 -> VT
      [] point = 12 -> "\f"
      [] point = 13 -> "\r"
      [] point \in 32..95 -> Printable[point - 31]
      [] point \in 97..126 -> Printable[point - 32]
      [] point \in 128..255 -> Latin1Supplement[point - 127]

\* the bytes of a sequence of UTF-8 by its first byte, 0 for a byte that
\* starts none
Utf8Width(b) ==
    CASE b < 128 -> 1
      [] b \in 194..223 -> 2
      [] b \in 224..239 -> 3
      [] b \in 240..244 -> 4
      [] OTHER -> 0

IsContinuation(b) == b \in 128..191

\* the second byte a first byte admits: no overlong form, no surrogate and
\* nothing above U+10FFFF
SecondOk(b1, b2) ==
    CASE b1 = 224 -> b2 \in 160..191
      [] b1 = 237 -> b2 \in 128..159
      [] b1 = 240 -> b2 \in 144..191
      [] b1 = 244 -> b2 \in 128..143
      [] OTHER -> IsContinuation(b2)

\* the code point of one sequence
CodePoint(b) ==
    CASE Len(b) = 1 -> b[1]
      [] Len(b) = 2 -> (b[1] - 192) * 64 + (b[2] - 128)
      [] Len(b) = 3 -> (b[1] - 224) * 4096 + (b[2] - 128) * 64 + (b[3] - 128)
      [] Len(b) = 4 -> (b[1] - 240) * 262144 + (b[2] - 128) * 4096
                          + (b[3] - 128) * 64 + (b[4] - 128)

RECURSIVE from_utf8(_)
\* str::from_utf8 and the unwrap of line 151: the code points of the bytes,
\* or the panic for bytes that are no UTF-8
from_utf8(bytes) ==
    IF bytes = <<>> THEN [st |-> "ok", points |-> <<>>]
    ELSE With(Utf8Width(bytes[1]), LAMBDA w :
         IF w = 0 \/ Len(bytes) < w THEN Panic
         ELSE IF w >= 2 /\ ~SecondOk(bytes[1], bytes[2]) THEN Panic
         ELSE IF \E i \in 3..w : ~IsContinuation(bytes[i]) THEN Panic
         ELSE Then(from_utf8(SubSeq(bytes, w + 1, Len(bytes))), LAMBDA rest :
              [st |-> "ok", points |-> <<CodePoint(SubSeq(bytes, 1, w))>> \o rest.points]))

RECURSIVE MulAdd(_, _, _)
\* the digits, the least first, of factor times the number of `digits` plus
\* carry
MulAdd(digits, factor, carry) ==
    IF digits = <<>>
    THEN IF carry = 0 THEN <<>> ELSE <<carry % 10>> \o MulAdd(<<>>, factor, carry \div 10)
    ELSE With(digits[1] * factor + carry, LAMBDA t :
         <<t % 10>> \o MulAdd(Tail(digits), factor, t \div 10))

RECURSIVE Magnitude(_)
\* the digits, the least first, of the number the bytes write, the greatest
\* byte first
Magnitude(bytes) ==
    IF bytes = <<>> THEN <<>>
    ELSE MulAdd(Magnitude(SubSeq(bytes, 1, Len(bytes) - 1)), 256, bytes[Len(bytes)])

DigitsText(digits) ==
    IF digits = <<>> THEN <<"0">>
    ELSE [i \in 1..Len(digits) |-> DIGITS[digits[Len(digits) + 1 - i] + 1]]

\* i32::from_sql and i64::from_sql of 4 and of 8 bytes, and the Display of
\* the integer: the bytes are the two's complement, the greatest byte first
IntegerText(bytes) ==
    IF bytes[1] < 128 THEN DigitsText(Magnitude(bytes))
    ELSE <<"-">> \o DigitsText(MulAdd(Magnitude([i \in 1..Len(bytes) |-> 255 - bytes[i]]),
                                      1, 1))

TextValue(text) == [tag |-> "Text", text |-> text]
BinaryValue(bytes) == [tag |-> "Binary", bytes |-> bytes]

\* the text bind puts for a parameter (lines 137-154), or the panic of the
\* unwrap of line 151
ParameterText(value) ==
    IF value.tag = "Text" THEN [st |-> "ok", text |-> <<"'">> \o value.text \o <<"'">>]
    ELSE IF Len(value.bytes) \in {4, 8}
    THEN [st |-> "ok", text |-> IntegerText(value.bytes)]
    ELSE Then(from_utf8(value.bytes), LAMBDA s :
         [st |-> "ok",
          text |-> <<"'">> \o [i \in 1..Len(s.points) |-> CharOf(s.points[i])] \o <<"'">>])

RECURSIVE BoundText(_, _, _)
\* the loop of bind (lines 135-158) from the parameter `index` on: the first
\* $index of the text is replaced with the text of the parameter
BoundText(query, parameters, index) ==
    IF index > Len(parameters) THEN [st |-> "ok", text |-> query]
    ELSE Then(ParameterText(parameters[index]), LAMBDA p :
         BoundText(ReplaceFirst(query, <<"$">> \o Decimal(index), p.text),
                   parameters, index + 1))

\* PostgresShim::bind: the unwrap of the statement of the name (line 134),
\* and the portal, which is the text bound
bind(be, query_name, parameters) ==
    IF query_name \notin DOMAIN be.queries THEN [be EXCEPT !.alive = FALSE]
    ELSE With(BoundText(be.queries[query_name], parameters, 1), LAMBDA bound :
         IF bound.st # "ok" THEN [be EXCEPT !.alive = FALSE]
         ELSE [be EXCEPT !.portal = <<bound.text>>])

\* the parameters default_parameters shows, in the order of its text
PARAMETER_NAMES ==
    <<<<"s","e","r","v","e","r","_","v","e","r","s","i","o","n">>,
      <<"s","e","r","v","e","r","_","e","n","c","o","d","i","n","g">>,
      <<"c","l","i","e","n","t","_","e","n","c","o","d","i","n","g">>,
      <<"a","p","p","l","i","c","a","t","i","o","n","_","n","a","m","e">>,
      <<"d","e","f","a","u","l","t","_","t","r","a","n","s","a","c","t","i","o","n","_","r","e","a","d","_","o","n","l","y">>,
      <<"i","s","_","s","u","p","e","r","u","s","e","r">>,
      <<"s","e","s","s","i","o","n","_","a","u","t","h","o","r","i","z","a","t","i","o","n">>,
      <<"D","a","t","e","S","t","y","l","e">>,
      <<"I","n","t","e","r","v","a","l","S","t","y","l","e">>,
      <<"T","i","m","e","Z","o","n","e">>,
      <<"i","n","t","e","g","e","r","_","d","a","t","e","t","i","m","e","s">>,
      <<"s","t","a","n","d","a","r","d","_","c","o","n","f","o","r","m","i","n","g","_","s","t","r","i","n","g","s">>>>

\* the text of lines 205-218
DEFAULT_PARAMETERS_QUERY ==
    <<"\n">>
    \o Concat([i \in 1..Len(PARAMETER_NAMES) |->
                  SHOW_WORD \o <<" ">> \o PARAMETER_NAMES[i] \o <<";","\n">>])
    \o <<" "," "," "," "," "," "," "," ">>

\* lines 224-248: the first value of every third row, from the first row on,
\* and the panics of expect, of the unwraps, of [0], of unreachable! and of
\* parameters[i]
ServerParameters(res) ==
    IF res.st # "ok" THEN Panic
    ELSE IF res.value = <<>> THEN Panic
    ELSE With(GetData(res.value[1]), LAMBDA data :
         IF data.st # "ok" THEN Panic
         ELSE IF \E i \in 1..Len(data.rows) :
                    data.rows[i].st # "ok" \/ Len(data.rows[i].row) = 0
         THEN Panic
         ELSE With([k \in 1..((Len(data.rows) + 2) \div 3) |-> data.rows[3 * k - 2].row[1]],
                   LAMBDA parameters :
              IF \E k \in 1..Len(parameters) : parameters[k].tag # "String" THEN Panic
              ELSE IF Len(parameters) < 12 THEN Panic
              ELSE [st |-> "ok",
                    value |-> [server_version |-> parameters[1].value,
                              server_encoding |-> parameters[2].value,
                              client_encoding |-> parameters[3].value,
                              application_name |-> parameters[4].value,
                              default_transaction_read_only |-> parameters[5].value,
                              in_hot_standby |-> <<"o","f","f">>,
                              is_superuser |-> parameters[6].value,
                              session_authorization |-> parameters[7].value,
                              date_style |-> parameters[8].value,
                              interval_style |-> parameters[9].value,
                              time_zone |-> parameters[10].value,
                              integer_datetimes |-> parameters[11].value,
                              standard_conforming_strings |-> parameters[12].value]]))

\* PostgresShim::default_parameters: the text through the stages of the
\* connection, and what it reads of the result
default_parameters(be, queries_to_cache, typed, resps) ==
    With(QueryCache_query(be.map, queries_to_cache, typed, be.cs,
                          DEFAULT_PARAMETERS_QUERY, resps), LAMBDA call :
    With(ServerParameters(call.res), LAMBDA read :
    [be EXCEPT !.cs = call.cs, !.map = call.map, !.log = @ \o call.log,
               !.parameters = IF read.st = "ok" THEN <<read.value>> ELSE <<>>,
               !.alive = read.st = "ok"]))

\* what the remote answers to the text of default_parameters: for every
\* parameter its name, its value and the count of the rows
RECURSIVE ParameterLogs(_)
ParameterLogs(n) ==
    IF n = 0 THEN <<>>
    ELSE ParameterLogs(n - 1) \o PARAMETER_NAMES[n] \o <<"\n">>
         \o <<"v">> \o Decimal(n - 1) \o <<"\n">> \o <<"(","1"," ">> \o ROW_END \o <<"\n">>

PARAMETERS_LOGS == ParameterLogs(Len(PARAMETER_NAMES))

\* the same without the value of the last parameter
PARAMETERS_SHORT ==
    ParameterLogs(Len(PARAMETER_NAMES) - 1) \o PARAMETER_NAMES[Len(PARAMETER_NAMES)] \o <<"\n">>

StartupResponses ==
    Responses({PARAMETERS_LOGS, PARAMETERS_SHORT, EMPTY_LOGS, ERROR_LOGS})

\* the statements the client prepares, their names, and the parameters it
\* binds: none, the integers 1 and -2, and the text 1 in both formats
SELECT_PARAMETER == <<"s","e","l","e","c","t"," ","$","1">>
DescribedStatements == {SELECT_PARAMETER, SELECT_2, SELECT_BROKEN, SELECT_DISTINCT, SHOW_LOWER}
StatementNames == {<<>>, <<"s">>}
BoundParameters ==
    {<<>>, <<BinaryValue(<<0, 0, 0, 1>>)>>,
     <<BinaryValue(<<255, 255, 255, 255, 255, 255, 255, 254>>)>>,
     <<TextValue(<<"1">>)>>, <<BinaryValue(<<49>>)>>, <<BinaryValue(<<195>>)>>}

InitDescribe ==
    /\ stage = "input"
    /\ arg \in {a \in [inference : Inferences, typed : BOOLEAN,
                        data_type_info : DescribedCatalogs, startup : StartupResponses,
                        describes : DescribedResponses, executes : DescribedResponses] :
                    a.typed \/ a.data_type_info = <<>>}
    /\ out = NewPostgresBackend(arg.data_type_info)
    /\ NoPipeline

\* the start of the connection: the parameters of the server are read
DefaultParameters ==
    /\ stage = "input"
    /\ out' = default_parameters(out, query_cache("p1"), arg.typed, arg.startup)
    /\ stage' = "started"
    /\ UNCHANGED <<arg, pipeline>>

\* the Parse message of the client, on a connection whose thread lives
Prepare(query_name, query) ==
    /\ stage = "started"
    /\ out.alive
    /\ out' = prepare(out, query_name, query)
    /\ UNCHANGED <<stage, arg, pipeline>>

\* the Bind message of the client
Bind(query_name, parameters) ==
    /\ stage = "started"
    /\ out.alive
    /\ out' = bind(out, query_name, parameters)
    /\ stage' = "bound"
    /\ UNCHANGED <<arg, pipeline>>

\* the Describe message of the client, for the portal bound
Describe ==
    /\ stage = "bound"
    /\ out.alive
    /\ out' = describe(out, out.portal[1], arg.inference, query_cache("p1"), arg.typed,
                       arg.describes)
    /\ stage' = "described"
    /\ UNCHANGED <<arg, pipeline>>

\* the Execute message of the client, for the portal bound
Execute ==
    /\ stage = "described"
    /\ out.alive
    /\ out' = execute(out, out.portal[1], query_cache("p1"), arg.typed, arg.executes)
    /\ stage' = "done"
    /\ UNCHANGED <<arg, pipeline>>

NextDescribe ==
    \/ DefaultParameters
    \/ \E query_name \in StatementNames, query \in DescribedStatements :
           Prepare(query_name, query)
    \/ \E query_name \in StatementNames, parameters \in BoundParameters :
           Bind(query_name, parameters)
    \/ Describe
    \/ Execute

SpecDescribe == InitDescribe /\ [][NextDescribe]_vars

----------------------------------------------------------------------------
(* Two connections of one port whose sessions differ, and a text of the    *)
(* allow-list.                                                             *)

MaxSessionCacheQueries == 3

SessionCacheConnections == {"c1", "c2"}
SessionCacheQueries == {SET_A, USE_T, SELECT_1}
SessionCacheResponses == Responses({ROWS_1})

NextSessionCache ==
    \E c \in SessionCacheConnections :
        \/ \E query \in SessionCacheQueries : CacheHit(c, query, MaxSessionCacheQueries)
        \/ \E query \in SessionCacheQueries : CacheMiss(c, query, MaxSessionCacheQueries)
        \/ \E resps \in SessionCacheResponses : Delegate(c, resps)

SpecSessionCache == Init /\ [][NextSessionCache]_vars

----------------------------------------------------------------------------
(* One connection and a text for every path of the type-inference adapter: *)
(* a use statement, a set statement, a select that does not parse, a       *)
(* select of a table the catalog does not know, and a select in upper case *)
(* whose types are inferred.                                               *)

SELECT_UPPER == <<"S","E","L","E","C","T"," ","C"," ","F","R","O","M"," ","U">>

MaxAdapterQueries == 2

AdapterQueries ==
    {USE_T, SET_A, SHOW_LOWER, SELECT_BROKEN, SELECT_ALIAS, SELECT_UPPER, SELECT_IF}
AdapterResponses ==
    [query : {Answer(ROWS_1), Answer(ERROR_LOGS)},
     catalog : {Answer(CATALOG_LOGS), Answer(EMPTY_LOGS), Answer(ERROR_LOGS)},
     database : {Answer(DATABASE_LOGS)}]

NextAdapter ==
    \/ \E query \in AdapterQueries : CacheMiss("c1", query, MaxAdapterQueries)
    \/ \E resps \in AdapterResponses : Delegate("c1", resps)

SpecAdapter == Init /\ [][NextAdapter]_vars

----------------------------------------------------------------------------
(* Properties of the pipeline *)

IsSet(query) == StartsWith(ToLower(query), SET_WORD)

IndicesOf(calls, name) == {i \in 1..Len(calls) : calls[i].stage = name}

\* the stage the filter of a connection owns
InnerOfFilter(c) ==
    IF with_type_discovery[PortOf(c)] THEN "QueryDataType" ELSE "QueryAccumulator"

\* C1: whenever the filter is called with exactly SHOW WARNINGS it returns
\* Ok(None) and no stage is called after it; called with any other text it
\* calls its inner stage exactly once, with the same text, and returns what
\* the inner stage returned.
C1_FilterContract ==
    \A c \in Connections :
        last[c] # <<>> =>
            LET log == last[c].log
            IN  \A i \in IndicesOf(log, "QueryFilter") :
                    IF log[i].text = SHOW_WARNINGS
                    THEN log[i].res = OkNone /\ i = Len(log)
                    ELSE /\ i < Len(log)
                         /\ log[i + 1].stage = InnerOfFilter(c)
                         /\ log[i + 1].text = log[i].text
                         /\ log[i + 1].res = log[i].res
                         /\ Cardinality(IndicesOf(log, InnerOfFilter(c))) = 1

\* C1 witness: SHOW WARNINGS answered by the filter, the last of three
\* queries.
C1_Witness ==
    /\ last["c1"] # <<>>
    /\ last["c1"].query = SHOW_WARNINGS
    /\ last["c1"].res = OkNone
    /\ Len(last["c1"].log) = 3
    /\ last["c1"].log[3].stage = "QueryFilter"
    /\ issued["c1"] = 3

\* C1 witness of the other case: the other spelling went through the filter
\* to the task API, whose error the filter returned.
C1_WitnessForwarded ==
    /\ last["c1"] # <<>>
    /\ last["c1"].query = SHOW_LOWER
    /\ last["c1"].res.st = "err"
    /\ \E i \in 1..Len(last["c1"].log) :
           /\ last["c1"].log[i].stage = "RunopsApi"
           /\ last["c1"].log[i].text = SHOW_LOWER

\* the set statements and the other statements a client of the session sends
SetStatements == {q \in SessionQueries : IsSet(q)}
ForwardedStatements == {q \in SessionQueries : ~IsSet(q) /\ q # SHOW_WARNINGS}

\* a;\nb;\n
Prefix(a, b) == a \o SEPARATOR \o b \o SEPARATOR

\* the calls of the query q sent after a and b, when the accumulator alone
\* calls the task API, once
CallsOfReplay(a, b, q) ==
    << [stage |-> "QueryCache", text |-> q], [stage |-> "QueryAccumulator", text |-> q],
       [stage |-> "RunopsApi", text |-> Prefix(a, b) \o q] >>

\* the same when the adapter first loads its catalog and its schema
CallsOfReplayWithLoad(a, b, q) ==
    << [stage |-> "QueryCache", text |-> q],
       [stage |-> "QueryAccumulator", text |-> CATALOG_SQL],
       [stage |-> "RunopsApi", text |-> Prefix(a, b) \o CATALOG_SQL],
       [stage |-> "QueryAccumulator", text |-> DATABASE_SQL],
       [stage |-> "RunopsApi", text |-> Prefix(a, b) \o DATABASE_SQL],
       [stage |-> "QueryAccumulator", text |-> q],
       [stage |-> "RunopsApi", text |-> Prefix(a, b) \o q] >>

\* a set statement answered: Ok(None), and no call of the task API
SetAnswered(c) ==
    (last[c] # <<>> /\ IsSet(last[c].query)) =>
        last[c].res = OkNone /\ IndicesOf(last[c].log, "RunopsApi") = {}

\* the client of the connection sent a, then b, then q, and q is answered
SentInOrder(c, a, b, q) ==
    /\ issued[c] = 3
    /\ pending[c] = <<>>
    /\ sets[c] = <<a, b>>
    /\ last[c].query = q

\* C2 as stated: after the client sent two distinct set statements a, b and a
\* query q that is no set statement, on a new connection, the accumulator has
\* called the task API exactly once, with a;\nb;\nq, and this is the only
\* call the task API received; the set statements returned Ok(None) and
\* called nothing.
C2_ReplayOnce ==
    \A c \in Connections :
        /\ SetAnswered(c)
        /\ \A a \in SetStatements, b \in SetStatements, q \in ForwardedStatements :
               (a # b /\ SentInOrder(c, a, b, q)) =>
                   Calls(last[c].log) = CallsOfReplay(a, b, q)

\* what the code does: the call that carries q is made exactly once, with
\* a;\nb;\nq, and it is the last; it is the only call of the task API unless
\* the connection discovers types, q is a select and the catalog the listener
\* handed to the connection is empty: then load_internals sends the catalog
\* query and the schema query first through the accumulator, each with the
\* prefix a;\nb;\n.  The set statements returned Ok(None) and called nothing.
C2_ReplayOfSession ==
    \A c \in Connections :
        /\ SetAnswered(c)
        /\ \A a \in SetStatements, b \in SetStatements, q \in ForwardedStatements :
               (a # b /\ SentInOrder(c, a, b, q)) =>
                   Calls(last[c].log) =
                       IF /\ with_type_discovery[PortOf(c)]
                          /\ StartsWith(ToLower(q), SELECT_WORD)
                          /\ data_type_info_clone(listener[PortOf(c)]) = <<>>
                       THEN CallsOfReplayWithLoad(a, b, q)
                       ELSE CallsOfReplay(a, b, q)

\* set a, SET b and a select answered on a connection without type
\* discovery, the task API called once.
C2_Witness ==
    /\ ~with_type_discovery["p1"]
    /\ SentInOrder("c1", SET_A, SET_B, SELECT_2)
    /\ Calls(last["c1"].log) = CallsOfReplay(SET_A, SET_B, SELECT_2)
    /\ last["c1"].res.st = "ok"
    /\ last["c1"].res.value # <<>>

RECURSIVE FirstOccurrences(_)
\* the distinct texts of a sequence in the order of their first occurrence
FirstOccurrences(texts) ==
    IF Len(texts) = 0 THEN <<>>
    ELSE LET front == FirstOccurrences(SubSeq(texts, 1, Len(texts) - 1))
             t == texts[Len(texts)]
         IN  IF \E i \in 1..Len(front) : front[i] = t THEN front ELSE Append(front, t)

RECURSIVE LastOccurrences(_)
\* the distinct texts of a sequence in the order of their last occurrence
LastOccurrences(texts) ==
    IF Len(texts) = 0 THEN <<>>
    ELSE LET rest == LastOccurrences(Tail(texts))
         IN  IF \E i \in 1..Len(rest) : rest[i] = texts[1] THEN rest
             ELSE <<texts[1]>> \o rest

\* the calls of the accumulator, in the last query of the connection, with a
\* text that is no set statement
Forwards(c) ==
    IF last[c] = <<>> THEN {}
    ELSE {i \in IndicesOf(last[c].log, "QueryAccumulator") : ~IsSet(last[c].log[i].text)}

\* the accumulator sent its call number i of the last query with this prefix
SentWith(c, i, statements) ==
    /\ i < Len(last[c].log)
    /\ last[c].log[i + 1].stage = "RunopsApi"
    /\ last[c].log[i + 1].text = ReplayText(statements, last[c].log[i].text)

\* C3 as stated: the text sent for a query that is no set statement is the
\* distinct set statements received so far, each once, in the order of their
\* FIRST occurrence, each followed by ;\n, and then the query.
C3_FirstOccurrenceOrder ==
    \A c \in Connections :
        \A i \in Forwards(c) : SentWith(c, i, FirstOccurrences(sets[c]))

\* C3 amended: the text sent for a query that is no set statement is the
\* distinct set statements received so far, each once, in the order of their
\* LAST occurrence (a statement sent again moves to the end), each followed
\* by ;\n, and then the query.
C3_LastOccurrenceOrder ==
    \A c \in Connections :
        \A i \in Forwards(c) : SentWith(c, i, LastOccurrences(sets[c]))

\* C3 witness: set a, SET b, set a again and then a query, sent with SET b
\* before set a.
C3_Witness ==
    /\ sets["c1"] = <<SET_A, SET_B, SET_A>>
    /\ executor["c1"].acc = <<SET_B, SET_A>>
    /\ last["c1"].query = SHOW_LOWER
    /\ last["c1"].log[Len(last["c1"].log)].text =
           SET_B \o SEPARATOR \o SET_A \o SEPARATOR \o SHOW_LOWER

\* the last query of the connection was answered from the map
IsHit(c) == last[c] # <<>> /\ Len(last[c].log) = 1 /\ last[c].res.value # <<>>

\* what the client gets from a result of the cache that needs no inner stage
EntryOf(result) == [columns |-> result.columns, rows |-> result.rows]

\* the stores of a text on a port, in order
StoresOf(p, query) == SelectSeq(stores[p], LAMBDA e : e.query = query)

\* C4 as stated, for the stored texts: a query answered from the map returns
\* the columns and rows of the FIRST call that stored the text.
C4_FirstCallResult ==
    \A c \in Connections :
        IsHit(c) =>
            EntryOf(last[c].res.value[1]) = StoresOf(PortOf(c), last[c].query)[1].entry

\* a connection receives a query in this step
Receives(c) == issued'[c] = issued[c] + 1

\* a connection's query comes back from the inner stages in this step
Returns(c) == pending[c] # <<>> /\ pending'[c] = <<>>

\* C4 amended: once a text is stored on a port, every query of that text
\* received later by a connection of the port calls no inner stage and returns
\* the columns and rows stored at that time, which are those of the latest
\* store (the first call's, unless a connection that missed at the same time
\* stored afterwards); a stored text stays stored, and only allow-listed texts
\* are stored; a query whose text is not stored calls the inner stage exactly
\* once, and when the text is not allow-listed nothing is stored.
C4_CacheSemantics ==
    [][\A c \in Connections :
          LET p == PortOf(c)
          IN  /\ DOMAIN storage[p] \subseteq DOMAIN storage'[p]
              /\ DOMAIN storage'[p] \subseteq queries_connection_cache
              /\ \A q \in DOMAIN storage'[p] :
                     storage'[p][q] = StoresOf(p, q)'[Len(StoresOf(p, q)')].entry
              /\ Receives(c) =>
                     IF pending'[c] # <<>>
                     THEN pending'[c][1] \notin DOMAIN storage[p]
                     ELSE /\ last'[c].query \in DOMAIN storage[p]
                          /\ last'[c].log =
                                 <<Entry("QueryCache", last'[c].query, last'[c].res)>>
                          /\ last'[c].res =
                                 OkSome(CachedResult(storage[p][last'[c].query]))
                          /\ storage' = storage
              /\ Returns(c) =>
                     /\ Cardinality(IndicesOf(last'[c].log, "QuerySanitizer")) = 1
                     /\ last'[c].log[2].text = pending[c][1]
                     /\ pending[c][1] \notin queries_connection_cache =>
                            storage' = storage
       ]_vars

\* C4 witness: the second connection, at its second query, is answered from
\* the map with what the first connection stored.
C4_Witness ==
    /\ IsHit("c2")
    /\ Len(stores["p1"]) = 1
    /\ stores["p1"][1].by = "c1"
    /\ EntryOf(last["c2"].res.value[1]) = stores["p1"][1].entry
    /\ issued["c2"] = 2

\* the last query of the connection reached the task API, which answered
\* with empty logs
AnsweredEmpty(c) ==
    /\ last[c] # <<>>
    /\ LET e == last[c].log[Len(last[c].log)]
       IN  /\ e.stage = "RunopsApi"
           /\ e.resp.send = "ok"
           /\ e.resp.task_logs = EMPTY_LOGS
           /\ EndsWith(e.text, SanitizedText(last[c].query))

\* C10 as stated: a query that the task API answers with empty logs returns
\* Ok(None) from the outermost stage, with or without type discovery.
C10_EmptyIsNone ==
    \A c \in Connections : AnsweredEmpty(c) => last[c].res = OkNone

\* the adapter of the connection inferred the columns of its last query
InferredFor(c) ==
    /\ with_type_discovery[PortOf(c)]
    /\ StartsWith(ToLower(SanitizedText(last[c].query)), SELECT_WORD)
    /\ InferColumnTypes(SanitizedText(last[c].query), executor[c].data_type_info,
                        executor[c].default_schema).st = "ok"

\* C10 amended: a query that the task API answers with empty logs returns
\* Ok(None) from the outermost stage of a pipeline without type discovery,
\* and of a pipeline with type discovery unless the query is a select whose
\* columns the adapter inferred: that query returns a result with the
\* inferred columns as its header and no rows.
C10_EmptyResult ==
    \A c \in Connections :
        AnsweredEmpty(c) =>
            IF InferredFor(c)
            THEN /\ last[c].res.st = "ok"
                 /\ last[c].res.value # <<>>
                 /\ GetData(last[c].res.value[1]).rows = <<>>
                 /\ LET header == GetData(last[c].res.value[1]).columns.value
                        cols == InferColumnTypes(SanitizedText(last[c].query),
                                                 executor[c].data_type_info,
                                                 executor[c].default_schema).cols
                    IN  /\ Len(header) = Len(cols)
                        /\ \A i \in 1..Len(cols) :
                               /\ header[i].column = cols[i].name
                               /\ header[i].coltype = cols[i].type
            ELSE last[c].res = OkNone

\* C10 witness: with type discovery a select answered with empty logs returns
\* a header and no rows.
C10_Witness ==
    /\ with_type_discovery["p1"]
    /\ AnsweredEmpty("c1")
    /\ last["c1"].query = SELECT_2
    /\ last["c1"].res.st = "ok"
    /\ last["c1"].res.value # <<>>
    /\ Len(GetData(last["c1"].res.value[1]).columns.value) = 1

\* C10 witness of the other case: without type discovery the same select
\* returns Ok(None).
C10_WitnessNone ==
    /\ ~with_type_discovery["p1"]
    /\ AnsweredEmpty("c1")
    /\ last["c1"].query = SELECT_2
    /\ last["c1"].res = OkNone

----------------------------------------------------------------------------
(* Properties of the front-end *)

\* the call of the task API for the query of the client, if the call was made:
\* the last call logged, unless that one asked for the catalog or the schema
ClientCall(log) ==
    IF Len(log) > 0 /\ log[Len(log)].stage = "RunopsApi"
          /\ log[Len(log)].text \notin {CATALOG_SQL, DATABASE_SQL}
    THEN <<log[Len(log)]>> ELSE <<>>

\* the remote answered the last query of the connection with an SQL error
SqlErrorAnswered(c) ==
    /\ last[c] # <<>>
    /\ pending[c] = <<>>
    /\ ClientCall(last[c].log) # <<>>
    /\ ClientCall(last[c].log)[1].resp.send = "ok"
    /\ StartsWith(ClientCall(last[c].log)[1].resp.task_logs, ERROR_WORD)

\* C11: when the task API answers a query with task_logs that start with
\* ERROR, the pipeline returns a SqlError whose message is task_logs unchanged,
\* the MySQL front-end sends the client an error packet with that text, and the
\* thread of the connection lives on to process the next query.
C11_SqlErrorReported ==
    \A c \in Connections :
        SqlErrorAnswered(c) =>
            /\ last[c].res = Failure("SqlError", ClientCall(last[c].log)[1].resp.task_logs)
            /\ backend[c].packet.kind = "Error"
            /\ backend[c].packet.code = "ER_ERROR_ON_READ"
            /\ backend[c].packet.message = ClientCall(last[c].log)[1].resp.task_logs
            /\ backend[c].alive

\* C11 witness: an error packet with the text of the remote, sent on a
\* connection with type discovery
C11_Witness ==
    /\ SqlErrorAnswered("c1")
    /\ with_type_discovery["p1"]
    /\ backend["c1"].packet.message = ERROR_LOGS
    /\ backend["c1"].alive

\* C11 witness: rows written to a connection whose query before failed with
\* an SQL error
C11_WitnessNextQuery ==
    /\ backend["c1"].previous = "Error"
    /\ backend["c1"].packet # <<>>
    /\ backend["c1"].packet.kind = "ResultSet"
    /\ Len(backend["c1"].packet.rows) = 1

\* the last query of the connection failed with an error that is no SqlError
TransportFailed(c) ==
    /\ last[c] # <<>>
    /\ pending[c] = <<>>
    /\ last[c].res.st = "err"
    /\ last[c].res.kind = "Transport"

\* C12: when a query fails with an error that is not a SqlError (the POST
\* fails, a poll is answered with another status), only that query fails: the
\* thread of the connection lives and serves the next query.
C12_TransportErrorSurvived ==
    \A c \in Connections : TransportFailed(c) => backend[c].alive

\* C13: when a String value of a row cannot be parsed under its inferred
\* type, the row iterator yields an error for that row only: the typed result
\* yields one item per row of the inner result, in order, each a row or an
\* error, and the rows after the failing one are still yielded.
C13_CoercionErrorPerRow ==
    (stage = "done" /\ arg.some /\ "typed" \in DOMAIN out /\ out.typed.st = "ok") =>
        /\ Len(out.typed.rows) = Len(out.reader.rows)
        /\ \A i \in 1..Len(out.typed.rows) : out.typed.rows[i].st \in {"ok", "err"}

\* the calls of the type-inference adapter for a select, among the calls logged
AdapterSelects(log) ==
    {i \in 1..Len(log) : /\ log[i].stage = "QueryDataType"
                         /\ StartsWith(ToLower(log[i].text), SELECT_WORD)}

\* the adapter returned the result of its inner stage with inferred types
TypedAnswer(res) ==
    /\ res.st = "ok"
    /\ res.value # <<>>
    /\ res.value[1].kind = "Typed"
    /\ Len(res.value[1].column_types) > 0

\* C14: for a select whose SQL fails to parse or whose projection cannot be
\* resolved (the catalog lookup failing included), the adapter returns no
\* error of its own: it delegates the original query, the last call it makes,
\* and returns what its inner stage returned, wrapped without types when it
\* is a result.
C14_RecoverableInference ==
    \A c \in Connections :
        (last[c] # <<>> /\ pending[c] = <<>>) =>
            \A i \in AdapterSelects(last[c].log) :
                ~TypedAnswer(last[c].log[i].res) =>
                    \E j \in (i + 1)..Len(last[c].log) :
                        /\ last[c].log[j].stage = "QueryAccumulator"
                        /\ last[c].log[j].text = last[c].log[i].text
                        /\ last[c].log[i].res = Untyped(last[c].log[j].res)

\* the commands a connection has received grow by a prepare
PrepareStep(c) ==
    /\ issued'[c] = issued[c] + 1
    /\ backend'[c].request.kind = "prepare"

\* the number of `?` characters of a text
Placeholders(sql) == Cardinality({i \in 1..Len(sql) : sql[i] = "?"})

\* C15: prepare(sql) appends sql to the statement list of the connection and
\* replies the id that is the length of the list before the append, with as
\* many parameter columns as sql has `?` characters; nothing is sent to the
\* pipeline.
C15_Prepare ==
    [][\A c \in Connections :
          PrepareStep(c) =>
              /\ backend'[c].prepared_statements
                     = Append(backend[c].prepared_statements, backend'[c].request.query)
              /\ backend'[c].packet.kind = "Prepared"
              /\ backend'[c].packet.id = Len(backend[c].prepared_statements)
              /\ Len(backend'[c].packet.params)
                     = Placeholders(backend'[c].request.query)
              /\ UNCHANGED <<storage, stores, executor, pending, last, sets>>]_vars

\* C15 witness: a second statement, of two placeholders, prepared with id 1
C15_Witness ==
    /\ backend["c1"].request # <<>>
    /\ backend["c1"].request.kind = "prepare"
    /\ Len(backend["c1"].prepared_statements) = 2
    /\ backend["c1"].prepared_statements[2] = SELECT_PARAMS
    /\ backend["c1"].packet.id = 1
    /\ Len(backend["c1"].packet.params) = 2

\* the text in which the k-th `?` of the prepared text is replaced by the
\* k-th of the values, the placeholders beyond the values left as they are
RECURSIVE Positional(_, _)
Positional(sql, values) ==
    IF Len(sql) = 0 THEN <<>>
    ELSE IF sql[1] = "?" /\ Len(values) > 0
    THEN values[1] \o Positional(Tail(sql), Tail(values))
    ELSE <<sql[1]>> \o Positional(Tail(sql), values)

\* the last command of the connection executed a statement of its list
Executed(c) ==
    /\ backend[c].request # <<>>
    /\ backend[c].request.kind = "execute"
    /\ backend[c].request.id < Len(backend[c].prepared_statements)

\* the text on_query received last
Dispatched(c) == IF pending[c] # <<>> THEN pending[c][1] ELSE last[c].query

\* C16: execute substitutes positionally, the k-th rendered parameter taking
\* the place of the k-th `?` of the prepared text, also when an earlier
\* rendered value contains a `?`; the text that results is dispatched to
\* query once.
C16_PositionalSubstitution ==
    \A c \in Connections :
        Executed(c) =>
            Dispatched(c) =
                Positional(backend[c].prepared_statements[backend[c].request.id + 1],
                           [k \in 1..Len(backend[c].request.params) |->
                               ValueStr(backend[c].request.params[k]).text])

\* the commands a connection has received grow by a close of a statement of
\* its list
CloseStep(c) ==
    /\ issued'[c] = issued[c] + 1
    /\ backend'[c].request.kind = "close"
    /\ backend'[c].request.id < Len(backend[c].prepared_statements)

\* C17: close(id) with a valid id removes exactly the entry at index id: the
\* list shrinks by one, the statements before id keep their index, and every
\* statement at an index greater than id is afterwards at that index minus
\* one.
C17_CloseShifts ==
    [][\A c \in Connections :
          CloseStep(c) =>
              /\ backend'[c].alive
              /\ Len(backend'[c].prepared_statements)
                     = Len(backend[c].prepared_statements) - 1
              /\ \A i \in 0..(Len(backend[c].prepared_statements) - 1) :
                     /\ i < backend'[c].request.id =>
                            backend'[c].prepared_statements[i + 1]
                                = backend[c].prepared_statements[i + 1]
                     /\ i > backend'[c].request.id =>
                            backend'[c].prepared_statements[i]
                                = backend[c].prepared_statements[i + 1]]_vars

\* C17 witness: of two statements prepared the second closed, the first left
\* at index 0
C17_Witness ==
    /\ backend["c1"].request # <<>>
    /\ backend["c1"].request.kind = "close"
    /\ backend["c1"].request.id = 1
    /\ backend["c1"].alive
    /\ backend["c1"].prepared_statements = <<SELECT_PARAM>>
    /\ issued["c1"] = 3

\* C17 witness: of two statements prepared the first closed, the second now
\* at index 0
C17_WitnessShifted ==
    /\ backend["c1"].request # <<>>
    /\ backend["c1"].request.kind = "close"
    /\ backend["c1"].request.id = 0
    /\ backend["c1"].alive
    /\ Len(backend["c1"].prepared_statements) = 1
    /\ issued["c1"] = 3

\* the summary line of the task API as the specification describes it
SummaryLine(row) ==
    /\ Len(row) = 1
    /\ row[1] # Null
    /\ \/ EndsWith(row[1].value, <<"r","o","w",")">>)
       \/ EndsWith(row[1].value, <<"r","o","w","s",")">>)

\* C18: in the MySQL and in the PostgreSQL front-end alike, a row of exactly
\* one column whose string ends with `row)` or `rows)` is not written to the
\* client, and every other row is written, in the order of the stream.
C18_SummaryRowsDropped ==
    (stage = "done" /\ "mysql" \in DOMAIN out) =>
        /\ out.mysql.packet.rows = SelectSeq(arg, LAMBDA row : ~SummaryLine(row))
        /\ out.postgres.packet.rows = SelectSeq(arg, LAMBDA row : ~SummaryLine(row))

\* the statements a text is made of, as the accumulator joins them
StatementsOf(text) ==
    With(Split(text, "\n"), LAMBDA lines :
    {IF i < Len(lines) /\ Len(lines[i]) > 0 /\ lines[i][Len(lines[i])] = ";"
     THEN SubSeq(lines[i], 1, Len(lines[i]) - 1) ELSE lines[i] : i \in 1..Len(lines)})

\* the texts the task API received for the last query of a connection
Forwarded_texts(c) ==
    IF last[c] = <<>> THEN {}
    ELSE {last[c].log[i].text : i \in IndicesOf(last[c].log, "RunopsApi")}

\* the set statements issued on a connection so far
IssuedSets(c) == {sets[c][i] : i \in 1..Len(sets[c])}

\* C19: for any interleaving of the queries of two connections of a port,
\* every set statement in a text that reaches the task API on behalf of a
\* connection was issued on that connection; a set statement issued only on
\* the other connection never appears in it.
C19_SessionIsolation ==
    \A c \in IsolationConnections :
        \A text \in Forwarded_texts(c) :
            \A statement \in StatementsOf(text) :
                IsSet(statement) => statement \in IssuedSets(c)

\* C19 witness: "set a" issued on c1 only, "SET b" on c2 only, and a query of
\* c2 forwarded with "SET b" alone before it
C19_Witness ==
    /\ IssuedSets("c1") = {SET_A}
    /\ IssuedSets("c2") = {SET_B}
    /\ Forwarded_texts("c2") = {ReplayText(<<SET_B>>, SELECT_2)}

\* the place of the first call of a stage among the calls logged, 0 when the
\* stage was not called
FirstCall(log, name) ==
    IF IndicesOf(log, name) = {} THEN 0 ELSE MinOf(IndicesOf(log, name))

\* C20: in a connection built with type discovery, a query traverses the
\* stages in the order cache, sanitizer, filter, session accumulator,
\* type-inference adapter, task client, each stage owning the next: the
\* accumulator is called before the adapter, which is called before the task
\* client.
C20_AccumulatorBeforeAdapter ==
    \A c \in Connections :
        (with_type_discovery[PortOf(c)] /\ last[c] # <<>>
            /\ FirstCall(last[c].log, "RunopsApi") > 0) =>
            /\ FirstCall(last[c].log, "QueryCache") = 1
            /\ FirstCall(last[c].log, "QuerySanitizer") = 2
            /\ FirstCall(last[c].log, "QueryFilter") = 3
            /\ FirstCall(last[c].log, "QueryAccumulator") = 4
            /\ FirstCall(last[c].log, "QueryDataType") = 5
            /\ FirstCall(last[c].log, "RunopsApi") = 6

----------------------------------------------------------------------------
(* Properties of the shared map *)

\* the entries stored under a text on a port, by any connection
EntriesStored(p, query) ==
    {stores[p][i].entry : i \in {j \in 1..Len(stores[p]) : stores[p][j].query = query}}

\* C21: under any interleaving of the stores and reads of one text by the
\* connections of a port, every read of the map, and the map itself, holds
\* the columns and the rows that one single store put there together: never
\* the columns of one store with the rows of another, never half an entry.
C21_SnapshotConsistent ==
    \A c \in Connections :
        /\ \A q \in DOMAIN storage[PortOf(c)] :
               storage[PortOf(c)][q] \in EntriesStored(PortOf(c), q)
        /\ IsHit(c) =>
               EntryOf(last[c].res.value[1]) \in EntriesStored(PortOf(c), last[c].query)

\* C21 witness: two stores of one text with different headers and rows, and a
\* connection that then read the text from the map.
C21_Witness ==
    /\ Len(stores["p1"]) = 2
    /\ stores["p1"][1].query = stores["p1"][2].query
    /\ stores["p1"][1].entry.columns # stores["p1"][2].entry.columns
    /\ stores["p1"][1].entry.rows # stores["p1"][2].entry.rows
    /\ IsHit("c1")
    /\ issued["c1"] = 2
    /\ EntryOf(last["c1"].res.value[1]) = stores["p1"][2].entry

\* both connections of the port have stored the text
BothStored(p, query) ==
    \A c \in SnapshotConnections :
        \E i \in 1..Len(stores[p]) : stores[p][i].query = query /\ stores[p][i].by = c

\* C22: two connections that ask for an allow-listed text the map does not
\* hold may both call the inner stage and both store; the entry of the text is
\* at any time the one stored last, and once both have stored every later
\* query of the text is answered from the map with that entry.
C22_LastWriterWins ==
    [][\A c \in SnapshotConnections :
          /\ \A q \in DOMAIN storage'[PortOf(c)] :
                 storage'[PortOf(c)][q] =
                     StoresOf(PortOf(c), q)'[Len(StoresOf(PortOf(c), q)')].entry
          /\ \A q \in SnapshotQueries :
                 (BothStored(PortOf(c), q) /\ Receives(c) /\ backend'[c].request.query = q) =>
                     /\ pending'[c] = <<>>
                     /\ last'[c].log = <<Entry("QueryCache", q, last'[c].res)>>
                     /\ last'[c].res = OkSome(CachedResult(
                            StoresOf(PortOf(c), q)[Len(StoresOf(PortOf(c), q))].entry))
                     /\ stores' = stores
      ]_vars

\* C22 witness: both connections missed and stored, the second store replaced
\* the first, and the first connection's next query got the second's result.
C22_Witness ==
    /\ Len(stores["p1"]) = 2
    /\ stores["p1"][1].by = "c1" /\ stores["p1"][2].by = "c2"
    /\ stores["p1"][1].query = SELECT_1 /\ stores["p1"][2].query = SELECT_1
    /\ stores["p1"][1].entry # stores["p1"][2].entry
    /\ storage["p1"][SELECT_1] = stores["p1"][2].entry
    /\ IsHit("c1")
    /\ issued["c1"] = 3
    /\ last["c1"].res = OkSome(CachedResult(stores["p1"][2].entry))

----------------------------------------------------------------------------
(* Properties of the session state *)

\* the statements of an accumulator
Accumulated(acc_) == {acc_[i] : i \in 1..Len(acc_)}

\* the text sent holds the statement before the query it ends with
ReplayedBefore(text, query, statement) ==
    /\ EndsWith(text, query)
    /\ statement \in StatementsOf(SubSeq(text, 1, Len(text) - Len(query)))

\* the calls of the accumulator for the last query that are no set statement
ForwardedCalls(log) ==
    {i \in IndicesOf(log, "QueryAccumulator") : ~IsSet(log[i].text)}

\* C23: no step removes a statement from the accumulator of a connection;
\* every query that reaches the accumulator and is no set statement goes to
\* the task API with every statement accepted so far before it, and leaves
\* the accumulator as it was, whether the task API answers with rows, with no
\* result or with an error.
C23_SetsReplayedForever ==
    [][\A c \in Connections :
          /\ Accumulated(executor[c].acc) \subseteq Accumulated(executor'[c].acc)
          /\ Returns(c) =>
                 /\ \A i \in ForwardedCalls(last'[c].log) :
                        /\ i < Len(last'[c].log)
                        /\ last'[c].log[i + 1].stage = "RunopsApi"
                        /\ \A s \in Accumulated(executor[c].acc) :
                               ReplayedBefore(last'[c].log[i + 1].text,
                                              last'[c].log[i].text, s)
                 /\ ForwardedCalls(last'[c].log) # {} =>
                        executor'[c].acc = executor[c].acc
      ]_vars

\* C23 witness: after "set a" and another query, a select is sent with "set a"
\* before it, fails, and the accumulator still holds "set a".
C23_Witness ==
    /\ issued["c1"] = 3
    /\ sets["c1"] = <<SET_A>>
    /\ executor["c1"].acc = <<SET_A>>
    /\ last["c1"].query = SELECT_2
    /\ last["c1"].res.st = "err"
    /\ last["c1"].log[Len(last["c1"].log)].stage = "RunopsApi"
    /\ last["c1"].log[Len(last["c1"].log)].text = SET_A \o SEPARATOR \o SELECT_2

\* C23 witness of the other outcomes: the same select answered with no result
C23_WitnessNone ==
    /\ issued["c1"] = 3
    /\ sets["c1"] = <<SET_A>>
    /\ executor["c1"].acc = <<SET_A>>
    /\ last["c1"].query = SELECT_2
    /\ AnsweredEmpty("c1")
    /\ last["c1"].log[Len(last["c1"].log)].text = SET_A \o SEPARATOR \o SELECT_2

\* the header or a row of the result the inner stage returned cannot be read
Unreadable(result) ==
    \/ result.columns.st # "ok"
    \/ \E i \in 1..Len(result.rows) : result.rows[i].st # "ok"

\* C24: when the inner stage returns no result or an error, the cache returns
\* just that; when the header or any one row of the result of an allow-listed
\* text cannot be read, the cache returns an error for the whole query (or
\* the thread unwinds, when the row iterator panics); in each case the map is
\* as it was: no entry, and no partial entry, for the text.
C24_PassThroughNothingStored ==
    stage = "done" =>
        /\ (arg.inner.st # "ok" \/ arg.inner.value = <<>>) =>
               out = arg.inner /\ storage["p1"] = arg.map
        /\ (/\ arg.inner.st = "ok" /\ arg.inner.value # <<>>
            /\ arg.query \in MissAllowList
            /\ Unreadable(arg.inner.value[1])) =>
               /\ out.st # "ok"
               /\ storage["p1"] = arg.map
               /\ arg.query \notin DOMAIN storage["p1"]
               /\ (\A i \in 1..Len(arg.inner.value[1].rows) :
                       arg.inner.value[1].rows[i].st # "panic") => out.st = "err"

\* C24 witness: the second row of an allow-listed result fails, the cache
\* returns an error and the map holds what it held
C24_Witness ==
    /\ stage = "done"
    /\ arg.query = SELECT_1
    /\ arg.inner.st = "ok" /\ arg.inner.value # <<>>
    /\ arg.inner.value[1].columns.st = "ok"
    /\ Len(arg.inner.value[1].rows) = 2
    /\ arg.inner.value[1].rows[1].st = "ok"
    /\ arg.inner.value[1].rows[2].st = "err"
    /\ out.st = "err"
    /\ DOMAIN storage["p1"] = {SELECT_2}

\* C24 witness of the header: it fails, the rows do not
C24_WitnessHeader ==
    /\ stage = "done"
    /\ arg.query = SELECT_1
    /\ arg.inner.st = "ok" /\ arg.inner.value # <<>>
    /\ arg.inner.value[1].columns.st = "err"
    /\ \A i \in 1..Len(arg.inner.value[1].rows) : arg.inner.value[1].rows[i].st = "ok"
    /\ Len(arg.inner.value[1].rows) = 2
    /\ out.st = "err"
    /\ storage["p1"] = <<>>

\* a connection receives an execute in this step
ExecuteStep(c) == Receives(c) /\ backend'[c].request.kind = "execute"

\* C25: an execute whose id is no index of the statement list of the
\* connection is answered with the error `Statement not found`; no query goes
\* to the pipeline and the statement list stays as it is.
C25_UnknownStatement ==
    [][\A c \in Connections :
          (ExecuteStep(c)
              /\ backend'[c].request.id >= Len(backend[c].prepared_statements)) =>
              /\ backend'[c].packet.kind = "Error"
              /\ backend'[c].packet.code = "ER_STMT_HAS_NO_OPEN_CURSOR"
              /\ backend'[c].packet.message = STATEMENT_NOT_FOUND
              /\ backend'[c].alive
              /\ backend'[c].prepared_statements = backend[c].prepared_statements
              /\ pending'[c] = <<>>
              /\ UNCHANGED <<last, sets, executor, storage, stores>>
      ]_vars

\* C25 witness: with one statement prepared, and a query answered before, an
\* execute of id 1 is told that the statement is not found
C25_Witness ==
    /\ Len(backend["c1"].prepared_statements) = 1
    /\ backend["c1"].request # <<>>
    /\ backend["c1"].request.kind = "execute"
    /\ backend["c1"].request.id = 1
    /\ backend["c1"].packet.kind = "Error"
    /\ backend["c1"].packet.message = STATEMENT_NOT_FOUND
    /\ pending["c1"] = <<>>
    /\ backend["c1"].alive

----------------------------------------------------------------------------
(* Properties of the catalog *)

\* the last query of the connection made its adapter send the catalog query
\* to the task API
CatalogQueried(c) ==
    /\ last[c] # <<>>
    /\ \E i \in IndicesOf(last[c].log, "RunopsApi") :
           EndsWith(last[c].log[i].text, CATALOG_SQL)

\* the catalog queries the listener of the port sent to the task API
CatalogLoads(p) ==
    {i \in IndicesOf(listener[p].log, "RunopsApi") : listener[p].log[i].text = CATALOG_SQL}

\* C26: over any sequence of connections and queries on a port with type
\* discovery, the catalog query reaches the remote at most once, and every
\* connection of the port infers from the same catalog.
C26_CatalogLoadedOncePerPort ==
    \A p \in Ports :
        /\ Cardinality(CatalogLoads(p))
               + Cardinality({c \in Connections : PortOf(c) = p /\ CatalogQueried(c)}) <= 1
        /\ \A c, d \in Connections :
               (PortOf(c) = p /\ PortOf(d) = p
                   /\ executor[c].data_type_info # <<>>
                   /\ executor[d].data_type_info # <<>>) =>
                   executor[c].data_type_info = executor[d].data_type_info

\* the columns the adapter inferred for the last query of a connection, the
\* query having come back with a typed result
InferredColumnsOf(c) == last[c].res.value[1].result.column_types

\* the last query of the connection came back from the adapter with a result
TypedReturn(c) ==
    /\ last[c] # <<>>
    /\ last[c].res.st = "ok"
    /\ last[c].res.value # <<>>
    /\ last[c].res.value[1].kind = "Result"
    /\ last[c].res.value[1].result.kind = "Typed"

\* C27: the catalog of a connection, the clone of the one its listener loaded
\* (or the one the connection loaded for itself when that clone is empty),
\* is never changed by a query, a select over a derived table included: the
\* rows (alias, alias, column, type) that the resolution adds are gone when
\* the query returns, and no later query resolves against them.
C27_CatalogNeverMutated ==
    [][\A c \in Connections :
          /\ executor[c].data_type_info # <<>> =>
                 executor'[c].data_type_info = executor[c].data_type_info
          /\ data_type_info_clone(listener[PortOf(c)]) # <<>> =>
                 executor'[c].data_type_info = data_type_info_clone(listener[PortOf(c)])
          /\ \A i \in 1..Len(executor'[c].data_type_info) :
                 executor'[c].data_type_info[i].schema # <<"d">>
          /\ (Returns(c) /\ pending[c][1] = SELECT_ALIAS /\ TypedReturn(c)') =>
                 InferredColumnsOf(c)' = <<[name |-> <<"c">>, type |-> TYPE_STRING]>>
      ]_vars

\* C27 witness: the select over the derived table got the type of the column
\* of the inner table through the rows added for the alias, and the catalog
\* of the connection is the one its listener loaded
C27_Witness ==
    /\ last["c1"] # <<>>
    /\ last["c1"].query = SELECT_DERIVED
    /\ TypedReturn("c1")
    /\ InferredColumnsOf("c1") = <<[name |-> <<"c">>, type |-> "MYSQL_TYPE_LONGLONG"]>>
    /\ data_type_info_clone(listener["p1"]) # <<>>
    /\ executor["c1"].data_type_info = data_type_info_clone(listener["p1"])

\* C27 witness of the later query: a select over the name of the derived
\* table, as the third query of the connection, finds no type
C27_WitnessLater ==
    /\ issued["c1"] = 3
    /\ last["c1"] # <<>>
    /\ last["c1"].query = SELECT_ALIAS
    /\ TypedReturn("c1")
    /\ InferredColumnsOf("c1") = <<[name |-> <<"c">>, type |-> TYPE_STRING]>>

\* the type the catalog of the model holds for column c of table u of a schema
TypeOfColumnIn(schema) ==
    IF schema = <<"s">> THEN "MYSQL_TYPE_LONGLONG"
    ELSE IF schema = <<"t">> THEN "MYSQL_TYPE_TINY"
    ELSE TYPE_STRING

\* the query that comes back in this step is a use statement
UseReturns(c) ==
    /\ Returns(c)
    /\ with_type_discovery[PortOf(c)]
    /\ StartsWith(ToLower(SanitizedText(pending[c][1])), USE_WORD)

\* C28: a use statement is delegated; when the inner stage succeeds the
\* default schema of the connection becomes the first token after `use`, and
\* a later select of the connection resolves a table name of one part
\* against that schema; when the inner stage fails the error is returned and
\* the default schema stays.
C28_UseStatement ==
    [][\A c \in Connections :
          /\ UseReturns(c) =>
                 /\ Cardinality(IndicesOf(last'[c].log, "QueryAccumulator")) = 1
                 /\ IF last'[c].res.st = "ok"
                    THEN executor'[c].default_schema =
                             Tokens(SanitizedText(pending[c][1]))[2]
                    ELSE /\ last'[c].res.st = "err"
                         /\ last'[c].res =
                                last'[c].log[Len(last'[c].log)].res
                         /\ executor'[c].default_schema = executor[c].default_schema
          /\ (/\ Returns(c) /\ with_type_discovery[PortOf(c)]
              /\ pending[c][1] = SELECT_TABLE
              /\ executor[c].default_schema # <<>>
              /\ TypedReturn(c)') =>
                 InferredColumnsOf(c)' =
                     <<[name |-> <<"c">>,
                        type |-> TypeOfColumnIn(executor[c].default_schema)]>>
      ]_vars

\* C28 witness: after `use t` the select from u gets the type of t.u.c
C28_Witness ==
    /\ with_type_discovery["p1"]
    /\ executor["c1"].default_schema = <<"t">>
    /\ last["c1"] # <<>>
    /\ last["c1"].query = SELECT_TABLE
    /\ TypedReturn("c1")
    /\ InferredColumnsOf("c1") = <<[name |-> <<"c">>, type |-> "MYSQL_TYPE_TINY"]>>

\* C28 witness of the failure: the schema loaded with the catalog is kept
\* when `use t` fails
C28_WitnessFailed ==
    /\ with_type_discovery["p1"]
    /\ executor["c1"].default_schema = <<"s">>
    /\ last["c1"] # <<>>
    /\ last["c1"].query = USE_T
    /\ last["c1"].res.st = "err"

\* C28 witness of the token: `USE  s x` after `use t` makes s the schema
C28_WitnessToken ==
    /\ with_type_discovery["p1"]
    /\ issued["c1"] = 2
    /\ executor["c1"].default_schema = <<"s">>
    /\ executor["c1"].data_type_info = <<>>
    /\ last["c1"] # <<>>
    /\ last["c1"].query = USE_S
    /\ last["c1"].res = OkNone

----------------------------------------------------------------------------
(* Properties of the inference and of the coercion *)

\* C29: for a projection if(cond, then, else) the type inferred is the type
\* inferred for `then`, unless `then` has no type of its own (it falls back
\* on the string type), in which case it is the type inferred for `else`.
C29_IfInference ==
    (stage = "done" /\ arg.then.kind = "Unnamed" /\ arg.else.kind = "Unnamed") =>
        /\ out.st = "ok"
        /\ out.col.type =
               IF process_expr(arg.then.expr, arg.columns).col.type # TYPE_STRING
               THEN process_expr(arg.then.expr, arg.columns).col.type
               ELSE process_expr(arg.else.expr, arg.columns).col.type

\* what the code computes: the type inferred for `then`, whatever `else` is
C29_ThenOnly ==
    (stage = "done" /\ arg.then.kind = "Unnamed") =>
        out = process_expr(arg.then.expr, arg.columns)

\* the value a string becomes under an integer type, or the failure
AsInteger(name, v, max, min) ==
    IF ParseInteger(v, max, min).ok
    THEN out = [st |-> "ok",
                value |-> [tag |-> name, value |-> ParseInteger(v, max, min).value]]
    ELSE out.st # "ok"

\* C30: a Null stays Null; a string becomes an I64 for bigint, an I32 for int
\* and mediumint, an I16 for smallint and year, an I8 for tinyint, and the
\* coercion fails when the number is outside the range of the type; under a
\* textual tag and under a tag the catalog match does not know the string is
\* left as it is.
C30_CoercionMapping ==
    stage = "done" =>
        IF arg.value = Null THEN out = [st |-> "ok", value |-> Null]
        ELSE CASE arg.tag = <<"b","i","g","i","n","t">> ->
                      AsInteger("I64", arg.value.value, I64_MAX, I64_MIN)
               [] arg.tag \in { <<"i","n","t">>, <<"m","e","d","i","u","m","i","n","t">> } ->
                      AsInteger("I32", arg.value.value, I32_MAX, I32_MIN)
               [] arg.tag \in { <<"s","m","a","l","l","i","n","t">>, <<"y","e","a","r">> } ->
                      AsInteger("I16", arg.value.value, I16_MAX, I16_MIN)
               [] arg.tag = <<"t","i","n","y","i","n","t">> ->
                      AsInteger("I8", arg.value.value, I8_MAX, I8_MIN)
               [] OTHER -> out = [st |-> "ok", value |-> arg.value]

\* what the code computes: the same, but for smallint, whose values become
\* I32 like those of int and mediumint
C30_SmallintAsI32 ==
    stage = "done" =>
        IF arg.value = Null THEN out = [st |-> "ok", value |-> Null]
        ELSE CASE arg.tag = <<"b","i","g","i","n","t">> ->
                      AsInteger("I64", arg.value.value, I64_MAX, I64_MIN)
               [] arg.tag \in { <<"i","n","t">>, <<"m","e","d","i","u","m","i","n","t">>,
                                <<"s","m","a","l","l","i","n","t">> } ->
                      AsInteger("I32", arg.value.value, I32_MAX, I32_MIN)
               [] arg.tag = <<"y","e","a","r">> ->
                      AsInteger("I16", arg.value.value, I16_MAX, I16_MIN)
               [] arg.tag = <<"t","i","n","y","i","n","t">> ->
                      AsInteger("I8", arg.value.value, I8_MAX, I8_MIN)
               [] OTHER -> out = [st |-> "ok", value |-> arg.value]

----------------------------------------------------------------------------
(* Properties of the task API *)

\* the task was submitted and the POST was answered
Dispatched_task == stage # "input" /\ arg.resp.send = "ok"

\* C31: the outcome of a query follows task_logs, the first test that matches
\* deciding: a text beginning with https:// gives the body fetched as reader,
\* the empty-logs text gives None, a text beginning with ERROR gives a SqlError
\* that carries task_logs, a text beginning with "Your task is running." enters
\* the poll loop, and any other text is itself the reader; so exactly one of the
\* five outcomes applies to every task_logs.
C31_TaskDispatch ==
    Dispatched_task =>
        CASE StartsWith(arg.resp.task_logs, HTTPS) ->
                 arg.resp.fetch = "ok" => out.first = OkSome(ReaderQueryResult(arg.resp.body))
          [] arg.resp.task_logs = EMPTY_LOGS -> out.first = OkNone
          [] StartsWith(arg.resp.task_logs, ERROR_WORD) ->
                 out.first = Failure("SqlError", arg.resp.task_logs)
          [] StartsWith(arg.resp.task_logs, TASK_RUNNING) -> out.first.st = "polling"
          [] OTHER -> out.first = OkSome(ReaderQueryResult(arg.resp.task_logs))

\* a text that only begins with the empty-logs text is itself the result
C31_Witness ==
    /\ Dispatched_task
    /\ arg.resp.task_logs = EMPTY_LOGS \o <<" ">>
    /\ out.first = OkSome(ReaderQueryResult(EMPTY_LOGS \o <<" ">>))

\* a text that begins with ERROR is the error of the SqlError
C31_WitnessError ==
    /\ Dispatched_task
    /\ arg.resp.task_logs = ERROR_LOGS
    /\ out.first = Failure("SqlError", ERROR_LOGS)

\* the query entered the poll loop
Entered == stage # "input" /\ out.first.st = "polling"

\* the remote answers one of the polls with something else than 400
RemoteAnswers == \E i \in 1..Len(arg.resp.polls) : arg.resp.polls[i] # "400"

\* a turn of the loop polls the task of the query, and returns exactly when
\* the poll is not answered 400: the logs fetched on a 200, a failure otherwise
PollTurn ==
    stage = "polling" =>
        /\ out'.polled = Polled(out.polled, arg.id)
        /\ out'.posts = out.posts
        /\ IF StatusOf(arg.resp.polls, out.polled) = "400"
           THEN stage' = "polling" /\ out'.res.st = "polling"
           ELSE /\ stage' = "done"
                /\ out'.res = IF /\ StatusOf(arg.resp.polls, out.polled) = "200"
                                 /\ arg.resp.fetch = "ok"
                              THEN OkSome(ReaderQueryResult(arg.resp.body))
                              ELSE Failure("Transport", <<>>)

\* C32: a query in the poll loop returns exactly when a poll receives a status
\* other than 400 (the logs fetched on a 200, an error on any other status) or
\* a request fails; every 400 is followed by another poll of the same task,
\* without bound, so the query returns eventually if and only if the remote
\* eventually answers with a status that is not 400 or a request fails.
C32_PollLoop ==
    /\ [][PollTurn]_vars
    /\ [](Entered => (stage = "polling" \/ RemoteAnswers))
    /\ (Entered /\ RemoteAnswers) ~> (stage = "done")
    /\ [](Entered /\ ~RemoteAnswers => stage = "polling")

\* the third poll is the first that is not answered 400, and it ends the query
C32_Witness ==
    /\ stage = "done"
    /\ Entered
    /\ arg.resp.polls = <<"400", "400", "200">>
    /\ out.polled = <<arg.id, arg.id, arg.id>>
    /\ out.res = OkSome(ReaderQueryResult(ROWS_2))

\* a task that is answered 400 for ever is still polled after MaxPolls polls
C32_WitnessForever ==
    /\ stage = "polling"
    /\ ~RemoteAnswers
    /\ Len(out.polled) = MaxPolls + 1

----------------------------------------------------------------------------
(* Properties of the listeners *)

\* what the connections of a port have stored, in whatever storage
StoredThrough(p) ==
    {rec \in UNION {{stores[k][i] : i \in 1..Len(stores[k])} : k \in Ports} :
         PortOf(rec.by) = p}

\* C33: the cache is per port: a hit on a connection returns an entry stored
\* through a connection of the same port, and a connection whose port has
\* stored nothing for a text misses it, another port holding the same
\* allow-listed text or not.
C33_PortsIsolated ==
    [][\A c \in PortConnections :
          /\ IsHit(c)' =>
                 \E rec \in StoredThrough(PortOf(c))' :
                     /\ rec.query = last'[c].query
                     /\ rec.entry = EntryOf(last'[c].res.value[1])
          /\ \A q \in PortQueries :
                 (/\ Receives(c) /\ backend'[c].request.query = q
                  /\ \A rec \in StoredThrough(PortOf(c)) : rec.query # q) =>
                     pending'[c] = <<q>>
          /\ \A k \in Ports : \A i \in 1..Len(stores'[k]) : PortOf(stores'[k][i].by) = k
      ]_vars

\* both ports hold the text with different results, and each connection was
\* answered from the map with the result of its own port
C33_Witness ==
    /\ SELECT_1 \in DOMAIN storage["p1"] /\ SELECT_1 \in DOMAIN storage["p2"]
    /\ storage["p1"][SELECT_1] # storage["p2"][SELECT_1]
    /\ IsHit("c1") /\ last["c1"].query = SELECT_1
    /\ IsHit("c3") /\ last["c3"].query = SELECT_1
    /\ EntryOf(last["c1"].res.value[1]) = storage["p1"][SELECT_1]
    /\ EntryOf(last["c3"].res.value[1]) = storage["p2"][SELECT_1]

\* the first port holds the text and the connection of the second missed it
C33_WitnessMiss ==
    /\ SELECT_1 \in DOMAIN storage["p1"]
    /\ pending["c3"] = <<SELECT_1>>

\* C34: in every reachable state every key of the map of a port is a text of
\* the allow-list of that port.
C34_KeysInAllowList ==
    \A p \in Ports : DOMAIN storage[p] \subseteq query_cache(p)

\* a text only the second port caches was answered on both ports, and only
\* the map of the second port holds it
C34_Witness ==
    /\ last["c1"] # <<>> /\ last["c1"].query = SELECT_2
    /\ last["c1"].res.st = "ok" /\ last["c1"].res.value # <<>>
    /\ SELECT_2 \in DOMAIN storage["p2"]
    /\ SELECT_2 \notin DOMAIN storage["p1"]
    /\ SELECT_1 \in DOMAIN storage["p1"]

----------------------------------------------------------------------------
(* Properties of the statement ids *)

\* C35: the ids of the prepared statements are stable: a close leaves every
\* other statement of the list at its id, so that execute(id) still runs the
\* text prepared under that id; a prepare gives its text an id that addresses
\* no statement yet and leaves the others where they are; an execute leaves
\* the list as it is.
C35_StableIds ==
    [][\A c \in Connections :
          /\ CloseStep(c) =>
                 \A i \in 0..(Len(backend[c].prepared_statements) - 1) :
                     i # backend'[c].request.id =>
                         get(backend'[c].prepared_statements, i)
                             = get(backend[c].prepared_statements, i)
          /\ PrepareStep(c) =>
                 /\ get(backend[c].prepared_statements, backend'[c].packet.id) = <<>>
                 /\ get(backend'[c].prepared_statements, backend'[c].packet.id)
                        = <<backend'[c].request.query>>
                 /\ \A i \in 0..(Len(backend[c].prepared_statements) - 1) :
                        get(backend'[c].prepared_statements, i)
                            = get(backend[c].prepared_statements, i)
          /\ ExecuteStep(c) =>
                 backend'[c].prepared_statements = backend[c].prepared_statements
      ]_vars

----------------------------------------------------------------------------
(* Properties of the submissions *)

\* the calls of the task API that carry the text of the query
Submissions(log, query) ==
    {i \in 1..Len(log) : log[i].stage = "RunopsApi" /\ Contains(log[i].text, query)}

\* C36: a query of the client is submitted to the task API at most once: the
\* poll loop reads the logs of the task it created, and the fallbacks after a
\* parse failure, an inference failure or a describe that failed do not run
\* the text a second time.
C36_AtMostOnce ==
    out.portal # <<>> => Cardinality(Submissions(out.log, out.portal[1])) <= 1

\* what the code does: a portal is submitted at most twice, and twice only
\* when describe failed on it
C36_TwiceAfterFailedDescribe ==
    out.portal # <<>> =>
        /\ Cardinality(Submissions(out.log, out.portal[1])) <= 2
        /\ Cardinality(Submissions(out.log, out.portal[1])) = 2 =>
               describe_by_parsing_query(out.portal[1], arg.inference).st # "ok"

\* a portal of the allow-list whose describe failed and stored the result is
\* executed from the map
C36_OnceWhenStored ==
    (stage = "done" /\ Len(out.log) > 0 /\ out.log[Len(out.log)].stage = "QueryCache") =>
        Cardinality(Submissions(out.log, out.portal[1])) = 1

\* the MySQL front-end: the stages called for one query of a connection
\* submit its text at most once, with or without type discovery
C36_OncePerQuery ==
    \A c \in Connections :
        last[c] # <<>> => Cardinality(Submissions(last[c].log, last[c].query)) <= 1

\* the poll loop submits nothing
C36_PollsSubmitNothing == stage # "input" => out.posts = 1

----------------------------------------------------------------------------
(* Properties of the cache and of the sessions *)

\* C37: the key of the cache is the text of the client alone: a connection
\* that asks for a text the map of its port holds is answered with the entry
\* as it was stored, whatever set statements and default schema its own
\* session and the session that stored the entry have, and no inner stage is
\* called.
C37_HitsIgnoreSession ==
    [][\A c \in SessionCacheConnections :
          \A q \in DOMAIN storage[PortOf(c)] :
              (Receives(c) /\ backend'[c].request.query = q) =>
                  /\ pending'[c] = <<>>
                  /\ last'[c].res = OkSome(CachedResult(storage[PortOf(c)][q]))
                  /\ last'[c].log = <<Entry("QueryCache", q, last'[c].res)>>
                  /\ executor' = executor
                  /\ storage' = storage
      ]_vars

\* the first connection stored the text with a set statement replayed before
\* it, and the second, whose session has no set statement, was answered with
\* that entry
C37_Witness ==
    /\ Len(stores["p1"]) = 1
    /\ stores["p1"][1].by = "c1"
    /\ sets["c1"] = <<SET_A>>
    /\ last["c1"].query = SELECT_1
    /\ \E i \in 1..Len(last["c1"].log) :
           /\ last["c1"].log[i].stage = "RunopsApi"
           /\ last["c1"].log[i].text = ReplayText(<<SET_A>>, SELECT_1)
    /\ executor["c2"].acc = <<>>
    /\ IsHit("c2")
    /\ last["c2"].res = OkSome(CachedResult(stores["p1"][1].entry))

\* the reader's default schema is another than the one of the storing session
C37_WitnessSchema ==
    /\ Len(stores["p1"]) = 1
    /\ stores["p1"][1].by = "c1"
    /\ executor["c1"].default_schema # executor["c2"].default_schema
    /\ executor["c2"].acc = <<SET_A>>
    /\ executor["c1"].acc = <<>>
    /\ IsHit("c2")
    /\ last["c2"].res = OkSome(CachedResult(stores["p1"][1].entry))

\* C38: in the text sent for a query that is no set statement, the last
\* statement before the query is the set statement the connection received
\* most recently, a statement that was already accumulated included: sent
\* again, it moves to the end of the replay.
C38_MostRecentSetLast ==
    \A c \in Connections :
        \A i \in Forwards(c) :
            sets[c] # <<>> =>
                /\ i < Len(last[c].log)
                /\ last[c].log[i + 1].stage = "RunopsApi"
                /\ \/ last[c].log[i + 1].text =
                          sets[c][Len(sets[c])] \o SEPARATOR \o last[c].log[i].text
                   \/ EndsWith(last[c].log[i + 1].text,
                               SEPARATOR \o sets[c][Len(sets[c])] \o SEPARATOR
                                   \o last[c].log[i].text)

\* set a, SET b and set a again: the query that follows is sent with set a
\* as the last statement before it
C38_Witness ==
    /\ sets["c1"] = <<SET_A, SET_B, SET_A>>
    /\ last["c1"].query = SELECT_2
    /\ \E i \in Forwards("c1") :
           last["c1"].log[i + 1].text =
               SET_B \o SEPARATOR \o SET_A \o SEPARATOR \o SELECT_2

----------------------------------------------------------------------------
(* Properties of the texts the adapter forwards *)

\* the calls the adapter made to its inner stage that are not its own catalog
\* and schema queries
OwnForwards(log, i) ==
    {j \in (i + 1)..Len(log) : /\ log[j].stage = "QueryAccumulator"
                               /\ log[j].text \notin {CATALOG_SQL, DATABASE_SQL}}

\* C39: the adapter never alters the text of the client: whatever it forwards
\* for the query is the text it received, character for character, never the
\* lower-cased text it parsed, and on each of its paths (use, no select, parse
\* failure, inference failure, inference) it forwards it exactly once.
C39_TextUnaltered ==
    \A c \in Connections :
        (last[c] # <<>> /\ pending[c] = <<>>) =>
            \A i \in IndicesOf(last[c].log, "QueryDataType") :
                /\ \A j \in OwnForwards(last[c].log, i) :
                       last[c].log[j].text = last[c].log[i].text
                /\ Cardinality(OwnForwards(last[c].log, i)) = 1

\* what holds of the forwarded text: it is never altered and never forwarded
\* twice, and it is forwarded once whenever the adapter returns
C39_UnalteredUnlessPanic ==
    \A c \in Connections :
        (last[c] # <<>> /\ pending[c] = <<>>) =>
            \A i \in IndicesOf(last[c].log, "QueryDataType") :
                /\ \A j \in OwnForwards(last[c].log, i) :
                       last[c].log[j].text = last[c].log[i].text
                /\ Cardinality(OwnForwards(last[c].log, i)) <= 1
                /\ last[c].log[i].res.st # "panic" =>
                       Cardinality(OwnForwards(last[c].log, i)) = 1

\* the types of a select in upper case were inferred from its lower-cased
\* text, and the text forwarded is the one in upper case
C39_Witness ==
    /\ last["c1"] # <<>>
    /\ last["c1"].query = SELECT_UPPER
    /\ \E i \in IndicesOf(last["c1"].log, "QueryDataType") :
           /\ TypedAnswer(last["c1"].log[i].res)
           /\ OwnForwards(last["c1"].log, i) # {}
           /\ \A j \in OwnForwards(last["c1"].log, i) :
                  /\ last["c1"].log[j].text = SELECT_UPPER
                  /\ last["c1"].log[j].text # ToLower(SELECT_UPPER)

\* a select that does not parse is forwarded as it is
C39_WitnessParse ==
    /\ last["c1"] # <<>>
    /\ last["c1"].query = SELECT_BROKEN
    /\ \E i \in IndicesOf(last["c1"].log, "QueryDataType") :
           \E j \in OwnForwards(last["c1"].log, i) : last["c1"].log[j].text = SELECT_BROKEN

\* a select answered with inferred column types is still forwarded as it is
C39_WitnessInference ==
    /\ last["c1"] # <<>>
    /\ last["c1"].query = SELECT_ALIAS
    /\ Len(executor["c1"].data_type_info) > 0
    /\ last["c1"].res.st = "ok"
    /\ \E i \in IndicesOf(last["c1"].log, "QueryDataType") :
           /\ TypedAnswer(last["c1"].log[i].res)
           /\ \E j \in OwnForwards(last["c1"].log, i) : last["c1"].log[j].text = SELECT_ALIAS

\* the adapter died on the catalog it could not load, and forwarded nothing
C39_WitnessPanic ==
    /\ last["c1"] # <<>>
    /\ \E i \in IndicesOf(last["c1"].log, "QueryDataType") :
           /\ last["c1"].log[i].res.st = "panic"
           /\ OwnForwards(last["c1"].log, i) = {}

----------------------------------------------------------------------------
(* Properties of a close with an id that is no index of the list *)

\* a connection receives a close whose id is no index of its statement list
CloseOutOfBounds(c) ==
    /\ Receives(c)
    /\ backend'[c].request.kind = "close"
    /\ backend'[c].request.id >= Len(backend[c].prepared_statements)

\* C40: a close whose id is no index of the statement list of the connection
\* does not return: the thread of the connection dies of the index out of
\* bounds, with no packet written, no error reported and the list as it was,
\* and the connection serves no command after it; an execute with the same
\* id only reports an error and the connection lives on.
C40_CloseOutOfBoundsAborts ==
       [][\A c \in Connections :
            /\ CloseOutOfBounds(c) =>
                   /\ backend[c].alive
                   /\ ~backend'[c].alive
                   /\ backend'[c].packet = NothingWritten
                   /\ backend'[c].prepared_statements = backend[c].prepared_statements
                   /\ pending'[c] = <<>>
            /\ (ExecuteStep(c)
                   /\ backend'[c].request.id >= Len(backend[c].prepared_statements)) =>
                   /\ backend'[c].alive
                   /\ backend'[c].packet.kind = "Error"
            /\ ~backend[c].alive =>
                   /\ backend'[c] = backend[c]
                   /\ issued'[c] = issued[c]
       ]_vars

\* C40 witness: the one statement prepared was closed twice, and the second
\* close killed the thread of the connection
C40_Witness ==
    /\ issued["c1"] = 3
    /\ backend["c1"].request # <<>>
    /\ backend["c1"].request.kind = "close"
    /\ backend["c1"].request.id = 0
    /\ backend["c1"].prepared_statements = <<>>
    /\ backend["c1"].packet = NothingWritten
    /\ ~backend["c1"].alive

\* C40 witness: the execute of an id that is no index of the list was told
\* `Statement not found`, and the close of the same id after it killed the
\* thread
C40_WitnessAfterExecute ==
    /\ issued["c1"] = 3
    /\ Len(backend["c1"].prepared_statements) = 1
    /\ backend["c1"].request # <<>>
    /\ backend["c1"].request.kind = "close"
    /\ backend["c1"].request.id = 1
    /\ ~backend["c1"].alive

====
